---- MODULE Spec2Model ----
(***************************************************************************)
(* mdns-bridge: the per-packet pipeline of one bridge worker.              *)
(*                                                                         *)
(* A worker receives one datagram on an interface, decodes it while        *)
(* applying the global and the interface inbound filter lists, re-encodes  *)
(* it once per outbound filter variant with a fresh compression list, and  *)
(* sends the results to the peers of the ingress interface.                *)
(*                                                                         *)
(* Buffers and arrays are byte for byte: a C array is a sequence holding   *)
(* the prefix that has ever been written, every element behind it still    *)
(* has the value calloc gave it (zero).  Offsets are zero based as in C.   *)
(***************************************************************************)
EXTENDS Integers, Sequences, FiniteSets, TLC

VARIABLES
    filtering_enabled,      \* filter.c: packet filtering enable flag
    global_filter_list,     \* filter.c: the global filter list (NULL or a list)
    interface_list,         \* interface.c: the interfaces of the worker's family
    local_storage,          \* bridge.c: thread_local_storage_t of the worker
    sent,                   \* the sendto calls of the last wake-up, in order
    log,                    \* the log lines of the last wake-up, in order
    ev,                     \* the last wake-up: interface, datagram, decode and encode records
    npackets,               \* number of wake-ups handled so far
    written,                \* the names dns_encode_name wrote into the send packet so far
    flag_warn,              \* main.c: set by the command line option -w
    down,                   \* the interfaces whose socket fails every sendto
    cfg,                    \* the globals of config.c, filter.c and interface.c at startup
    threads,                \* bridge.c: the workers of the two families, each with its storage
    scen                    \* which family of configurations and datagrams is explored

vars == <<filtering_enabled, global_filter_list, interface_list, local_storage,
          sent, log, ev, npackets, written, flag_warn, down, cfg, threads, scen>>

----------------------------------------------------------------------------
(* Program constants *)

MDNS_MAX_PACKET_SIZE == 9000
DNS_MAX_NAME_LEN == 256
DNS_MAX_NUM_LABELS == 128
MAX_NUM_LABELS == 127
MAX_LABEL_LEN == 64
INITIAL_QUERY_COUNT == 25
INITIAL_RESOURCE_COUNT == 50
MAX_QUERY_COUNT == 1498
MAX_RESOURCE_COUNT == 749
SIZEOF_DNS_HEADER == 12
SIZEOF_QUERY_HEADER == 4
SIZEOF_RR_HEADER == 10
SIZEOF_SRV_DATA == 6

DNS_TYPE_A == 1
DNS_TYPE_CNAME == 5
DNS_TYPE_PTR == 12
DNS_TYPE_HINFO == 13
DNS_TYPE_TXT == 16
DNS_TYPE_AAAA == 28
DNS_TYPE_SRV == 33
DNS_TYPE_DNAME == 39
DNS_TYPE_OPT == 41
DNS_TYPE_NSEC == 47
DNS_TYPE_SVCB == 64
DNS_TYPE_HTTPS == 65
DNS_TYPE_ANY == 255

RR_ANSWER == 0
RR_AUTHORITY == 1
RR_ADDITIONAL == 2
NUM_RR_SECTION_TYPES == 3

ALLOW == 0
DENY == 1

NULL == 0

IPV4 == 0
IPV6 == 1
IpTypes == {IPV4, IPV6}

----------------------------------------------------------------------------
(* C arrays and wire integers *)

Max(a, b) == IF a >= b THEN a ELSE b


\* a function on 1..n, held as a sequence
AsSeq(f) == f \o <<>>

Zeros(n) == AsSeq([k \in 1..n |-> 0])

\* arr[off]
Rd(arr, off) == IF off < Len(arr) THEN arr[off + 1] ELSE 0

\* arr[off .. off+n-1]
Sub(arr, off, n) == AsSeq([k \in 1..n |-> Rd(arr, off + k - 1)])

\* memcpy(arr + off, src, Len(src))
PutSeq(arr, off, src) ==
    IF Len(src) = 0 THEN arr
    ELSE AsSeq([k \in 1..Max(Len(arr), off + Len(src)) |->
                  IF k > off /\ k <= off + Len(src) THEN src[k - off] ELSE Rd(arr, k - 1)])

\* arr[off] = v
Put(arr, off, v) == PutSeq(arr, off, <<v>>)

\* a 16 bit field in network byte order
U16(arr, off) == Rd(arr, off) * 256 + Rd(arr, off + 1)

\* the two wire bytes of a 16 bit value
B16(v) == <<(v % 65536) \div 256, v % 256>>

\* sequence search: does sub occur in s as a contiguous run
OccursAt(s, sub, k) == \A j \in 1..Len(sub) : s[k + j - 1] = sub[j]

memmem(s, sub) == \E k \in 1..(Len(s) - Len(sub) + 1) : OccursAt(s, sub, k)

----------------------------------------------------------------------------
(* dns.h: label pointers *)

IS_LABEL_POINTER(len) == len >= 192

POINTER_OFFSET(hb, lb) == (hb % 64) * 256 + lb

\* a pointer whose second flag bit is missing (0x8000 instead of 0xc000)
OFFSET_TO_HALF_POINTER(off) == (off % 16384) + 32768

\* the value whose two wire bytes are the pointer (htons applied on store)
OFFSET_TO_POINTER(off) == (off % 16384) + 49152

----------------------------------------------------------------------------
(* common.h: dns_name_t *)

ZeroName == [length |-> 0, count |-> 0, offset |-> <<>>, labels |-> <<>>]

\* the label bytes of a name, name->labels[0 .. name->length-1]
NameBytes(name) == Sub(name.labels, 0, name.length)

----------------------------------------------------------------------------
(* filter.c: filter lists.  A filter list instance is an entry of          *)
(* FilterTable, referenced by its index; NULL is 0.  Match names are the   *)
(* length prefixed label bytes dns_save_match_name stores.                 *)

L_local == <<5, 108, 111, 99, 97, 108>>
L_tcp == <<4, 95, 116, 99, 112>>
L_udp == <<4, 95, 117, 100, 112>>
L_ipp == <<4, 95, 105, 112, 112>>
L_ssh == <<4, 95, 115, 115, 104>>
L_a == <<1, 97>>
L_b == <<1, 98>>

FilterTable ==
    << [allow_deny |-> ALLOW, count |-> 1, names |-> <<L_ipp>>],
       [allow_deny |-> DENY,  count |-> 1, names |-> <<L_ssh>>],
       [allow_deny |-> DENY,  count |-> 2, names |-> <<L_ipp, L_ssh>>],
       [allow_deny |-> ALLOW, count |-> 2, names |-> <<L_a, L_ssh>>] >>

FilterIds == 1..Len(FilterTable)

dns_subset_match(name, subset) == memmem(NameBytes(name), subset)

\* a list that admits whatever matches, allow or deny alike
filter_list_matched(filter_list, name) ==
    \E index \in 1..FilterTable[filter_list].count :
        dns_subset_match(name, FilterTable[filter_list].names[index])

filter_list_allowed(filter_list, name) ==
    IF \E index \in 1..FilterTable[filter_list].count :
          dns_subset_match(name, FilterTable[filter_list].names[index])
    THEN FilterTable[filter_list].allow_deny = ALLOW
    ELSE FilterTable[filter_list].allow_deny = DENY

allowed_inbound(interface, name) ==
    IF global_filter_list # NULL /\ ~filter_list_allowed(global_filter_list, name)
    THEN FALSE
    ELSE IF interface_list[interface].inbound_filter_list # NULL
    THEN filter_list_allowed(interface_list[interface].inbound_filter_list, name)
    ELSE TRUE

allowed_outbound(filter_list, name) ==
    IF filter_list # NULL THEN filter_list_allowed(filter_list, name) ELSE TRUE

----------------------------------------------------------------------------
(* dns_decode.c: dns_decode_name.  The result carries the next offset (0   *)
(* on error), the name as left in memory, the highest offset of the        *)
(* receive buffer that was read, and the error that was logged.            *)

\* a bounds check without the byte of reserve for the terminator
name_overrun_no_reserve(packet, label_offset, name_offset, copy_len) ==
    \/ label_offset + copy_len > packet.bytes
    \/ name_offset + copy_len > DNS_MAX_NAME_LEN

\* the bounds check before a label is copied
name_overrun(packet, label_offset, name_offset, copy_len) ==
    \/ label_offset + copy_len + 1 > packet.bytes
    \/ name_offset + copy_len + 1 > DNS_MAX_NAME_LEN

\* label_len = packet->buffer[label_offset]
label_len_at(packet, s) == Rd(packet.buffer, s.label_offset)

\* the target of the pointer at label_offset
label_pointer(packet, s) ==
    POINTER_OFFSET(label_len_at(packet, s), Rd(packet.buffer, s.label_offset + 1))

\* name->offset[label_count] = name_offset
name_noted(s) ==
    [s.name EXCEPT !.offset = Put(@, s.label_count, s.name_offset % 256)]

\* this turn of the loop returns: a bad pointer, too many labels, the root
\* label, or a label that does not fit
label_returns(packet, s) ==
    IF IS_LABEL_POINTER(label_len_at(packet, s))
    THEN \/ label_pointer(packet, s) < SIZEOF_DNS_HEADER
         \/ label_pointer(packet, s) >= s.label_offset
    ELSE \/ s.label_count + 1 > MAX_NUM_LABELS
         \/ label_len_at(packet, s) = 0
         \/ name_overrun(packet, s.label_offset, s.name_offset,
                         label_len_at(packet, s) + 1)

\* what the loop returns in that turn
label_result(packet, s) ==
    IF IS_LABEL_POINTER(label_len_at(packet, s))
    THEN [ret |-> 0, name |-> s.name, rd |-> Max(s.rd, s.label_offset + 1),
          err |-> "bad label pointer in a name"]
    ELSE IF s.label_count + 1 > MAX_NUM_LABELS
    THEN [ret |-> 0, name |-> name_noted(s), rd |-> Max(s.rd, s.label_offset),
          err |-> "too many labels in a name"]
    ELSE IF label_len_at(packet, s) = 0
    THEN [ret |-> IF s.compressed THEN s.packet_offset ELSE s.packet_offset + 1,
          name |-> [name_noted(s) EXCEPT !.labels = Put(@, s.name_offset, 0),
                                         !.length = s.name_offset + 1,
                                         !.count = s.label_count + 1],
          rd |-> Max(s.rd, s.label_offset), err |-> ""]
    ELSE [ret |-> 0, name |-> name_noted(s), rd |-> Max(s.rd, s.label_offset),
          err |-> "name overrun"]

\* the locals after a turn that follows a pointer or copies a label
label_next(packet, s) ==
    IF IS_LABEL_POINTER(label_len_at(packet, s))
    THEN [s EXCEPT !.packet_offset = IF s.compressed THEN @ ELSE @ + 2,
                   !.compressed = TRUE,
                   !.label_offset = label_pointer(packet, s),
                   !.rd = Max(s.rd, s.label_offset + 1)]
    ELSE [s EXCEPT !.name = [name_noted(s) EXCEPT !.labels =
                                PutSeq(@, s.name_offset,
                                       Sub(packet.buffer, s.label_offset,
                                           label_len_at(packet, s) + 1))],
                   !.name_offset = @ + label_len_at(packet, s) + 1,
                   !.label_offset = @ + label_len_at(packet, s) + 1,
                   !.label_count = @ + 1,
                   !.packet_offset = IF s.compressed THEN @
                                     ELSE @ + label_len_at(packet, s) + 1,
                   !.rd = Max(s.rd, s.label_offset + label_len_at(packet, s))]

\* one more turn of the loop unless the loop returns in this one
label_turn(packet, s) ==
    IF label_returns(packet, s) THEN s ELSE label_next(packet, s)

\* the loop over the labels; s holds the locals and the name written so
\* far.  The turns are taken four at a time.
RECURSIVE decode_name_loop(_, _)
decode_name_loop(packet, s) ==
    IF label_returns(packet, s) THEN label_result(packet, s)
    ELSE decode_name_loop(packet,
            label_turn(packet,
                label_turn(packet,
                    label_turn(packet, label_next(packet, s)))))

dns_decode_name(packet, packet_offset, name) ==
    decode_name_loop(packet,
        [packet_offset |-> packet_offset, label_offset |-> packet_offset,
         compressed |-> FALSE, name_offset |-> 0, label_count |-> 0, rd |-> -1,
         name |-> name])

----------------------------------------------------------------------------
(* dns.h: decoder scratch.  query->data and rr->data are offsets into the  *)
(* receive buffer.                                                          *)

ZeroQuery == [data |-> 0, type |-> 0, name |-> ZeroName]

ZeroRR == [data |-> 0, type |-> 0, secondary_len |-> 0, name |-> ZeroName, rdata_name |-> ZeroName]

\* list[i] of a calloc'ed array of records
GetE(list, i, zero) == IF i < Len(list) THEN list[i + 1] ELSE zero

\* list[i] = v
PutE(list, i, v, zero) ==
    AsSeq([k \in 1..Max(Len(list), i + 1) |->
              IF k = i + 1 THEN v ELSE GetE(list, k - 1, zero)])

\* what the decoder did, kept beside the program state for the properties:
\* highest receive buffer offset read, log lines, whether a name with a bad
\* pointer was met, and one entry per query / record of the datagram
ZeroNote == [rd |-> -1, log |-> <<>>, badptr |-> FALSE, trace |-> <<>>]

NoteName(g, r) ==
    [g EXCEPT !.rd = Max(@, r.rd),
              !.log = IF r.err # "" THEN Append(@, r.err) ELSE @,
              !.badptr = @ \/ r.err = "bad label pointer in a name"]

NoteLog(g, line) == [g EXCEPT !.log = Append(@, line)]

NoteRead(g, off) == [g EXCEPT !.rd = Max(@, off)]

----------------------------------------------------------------------------
(* realloc after startup.  state.reallocs is the number of realloc calls   *)
(* that still succeed; a negative number means that none fails.            *)

realloc_fails(state) == state.reallocs = 0

\* the state after a realloc call that succeeded
realloc_done(state) == [state EXCEPT !.reallocs = IF @ > 0 THEN @ - 1 ELSE @]

----------------------------------------------------------------------------
(* dns_decode.c: dns_decode_header.  A decoder result c carries the state, *)
(* the next offset (0 on error) and the notes.                             *)

\* lists that are reallocated while the allocated counts stay what they were
header_counts_stale(state, g) ==
    IF state.recv_query_count > state.allocated_query_count
       /\ state.recv_query_count > MAX_QUERY_COUNT
    THEN [st |-> state, off |-> 0, g |-> NoteLog(g, "too many queries")]
    ELSE IF state.recv_rr_count[1] + state.recv_rr_count[2] + state.recv_rr_count[3]
              > state.allocated_rr_count
            /\ state.recv_rr_count[1] + state.recv_rr_count[2] + state.recv_rr_count[3]
              > MAX_RESOURCE_COUNT
    THEN [st |-> state, off |-> 0, g |-> NoteLog(g, "too many resource records")]
    ELSE [st |-> state, off |-> SIZEOF_DNS_HEADER, g |-> g]

\* the resource record list is grown if necessary
header_rr_count(state, g) ==
    LET total_rr_count == state.recv_rr_count[1] + state.recv_rr_count[2]
                          + state.recv_rr_count[3]
    IN  IF total_rr_count <= state.allocated_rr_count
        THEN [st |-> state, off |-> SIZEOF_DNS_HEADER, g |-> g]
        ELSE IF total_rr_count > MAX_RESOURCE_COUNT
        THEN [st |-> state, off |-> 0, g |-> NoteLog(g, "too many resource records")]
        ELSE IF realloc_fails(state)
        THEN [st |-> state, off |-> 0, g |-> NoteLog(g, "Cannot allocate memory")]
        ELSE [st |-> [realloc_done(state) EXCEPT !.allocated_rr_count = total_rr_count],
              off |-> SIZEOF_DNS_HEADER, g |-> g]

\* the header's counts are in place, the lists are grown to hold them
header_counts(state, g) ==
    IF state.recv_query_count <= state.allocated_query_count
    THEN header_rr_count(state, g)
    ELSE IF state.recv_query_count > MAX_QUERY_COUNT
    THEN [st |-> state, off |-> 0, g |-> NoteLog(g, "too many queries")]
    ELSE IF realloc_fails(state)
    THEN [st |-> state, off |-> 0, g |-> NoteLog(g, "Cannot allocate memory")]
    ELSE header_rr_count(
            [realloc_done(state) EXCEPT !.allocated_query_count = state.recv_query_count],
            g)

dns_decode_header(state, packet) ==
    IF packet.bytes < SIZEOF_DNS_HEADER
    THEN [st |-> state, off |-> 0,
          g |-> NoteLog(ZeroNote, "dns_decode_header: packet too small")]
    ELSE header_counts([state EXCEPT !.recv_query_count = U16(packet.buffer, 4),
                                     !.recv_rr_count = <<U16(packet.buffer, 6),
                                                         U16(packet.buffer, 8),
                                                         U16(packet.buffer, 10)>>],
                       NoteRead(ZeroNote, 11))

----------------------------------------------------------------------------
(* dns_decode.c: dns_decode_queries *)

QueryOwnerFiltered == {DNS_TYPE_SRV, DNS_TYPE_TXT, DNS_TYPE_SVCB, DNS_TYPE_HTTPS, DNS_TYPE_ANY}

QueryNotFiltered == {DNS_TYPE_A, DNS_TYPE_AAAA, DNS_TYPE_PTR, DNS_TYPE_OPT}

\* the query is stored in its slot; the slot is kept when the query is allowed
query_store(c, q, g, known, allowed) ==
    [st |-> [c.st EXCEPT !.query_list = PutE(@, c.st.query_count, q, ZeroQuery),
                         !.query_count = IF allowed THEN @ + 1 ELSE @],
     off |-> q.data + SIZEOF_QUERY_HEADER,
     g |-> [g EXCEPT !.trace = Append(@,
              [sec |-> -1, type |-> q.type, allowed |-> allowed, known |-> known,
               filtered |-> q.type \in QueryOwnerFiltered,
               fname |-> IF q.type \in QueryOwnerFiltered THEN NameBytes(q.name) ELSE <<>>])]]

\* one turn of the loop; r is the result of dns_decode_name on the query name
decode_query(c, r, interface, packet) ==
    LET query == GetE(c.st.query_list, c.st.query_count, ZeroQuery)
        g1 == NoteName(c.g, r)
        q1 == [query EXCEPT !.name = r.name]
        q2 == [query EXCEPT !.name = r.name, !.data = r.ret]
        type == U16(packet.buffer, r.ret)
        q3 == [query EXCEPT !.name = r.name, !.data = r.ret, !.type = type]
        known == type \in QueryOwnerFiltered \cup QueryNotFiltered
        g2 == NoteRead(g1, r.ret + 1)
    IN  IF r.ret = 0
        THEN [st |-> [c.st EXCEPT !.query_list = PutE(@, c.st.query_count, q1, ZeroQuery)],
              off |-> 0, g |-> g1]
        ELSE IF r.ret + SIZEOF_QUERY_HEADER > packet.bytes
        THEN [st |-> [c.st EXCEPT !.query_list = PutE(@, c.st.query_count, q2, ZeroQuery)],
              off |-> 0, g |-> NoteLog(g1, "malformed query")]
        ELSE query_store(c, q3,
                IF known THEN g2
                ELSE NoteLog(NoteLog(g2, "unsupported query type (dropped)"), "(name)"),
                known,
                IF type \in QueryOwnerFiltered THEN allowed_inbound(interface, r.name)
                ELSE type \in QueryNotFiltered)

RECURSIVE decode_queries_loop(_, _, _, _, _)
decode_queries_loop(c, index, count, interface, packet) ==
    IF c.off = 0 \/ index >= count THEN c
    ELSE decode_queries_loop(
            decode_query(c,
                dns_decode_name(packet, c.off,
                                GetE(c.st.query_list, c.st.query_count, ZeroQuery).name),
                interface, packet),
            index + 1, count, interface, packet)

\* the call in dns_decode_packet, with its guard
dns_decode_queries(c, interface, packet) ==
    IF c.off # 0 /\ c.st.recv_query_count # 0
    THEN decode_queries_loop(c, 0, c.st.recv_query_count, interface, packet)
    ELSE c

----------------------------------------------------------------------------
(* dns_decode.c: dns_decode_rrs *)

RROwnerFiltered == {DNS_TYPE_SRV, DNS_TYPE_TXT, DNS_TYPE_HINFO, DNS_TYPE_SVCB, DNS_TYPE_HTTPS}

RRDataFiltered == {DNS_TYPE_PTR, DNS_TYPE_CNAME, DNS_TYPE_DNAME}

RRNotFiltered == {DNS_TYPE_A, DNS_TYPE_AAAA, DNS_TYPE_OPT, DNS_TYPE_NSEC}

\* return 0 out of the loop: rr is what the slot holds by then
rr_fail(c, rr, g) ==
    [st |-> [c.st EXCEPT !.rr_list = PutE(@, c.st.total_rr_count, rr, ZeroRR)],
     off |-> 0, g |-> g]

\* SRV in the second switch; r is the result of dns_decode_name on the target
secondary_srv(off, g, rr, data_len, r) ==
    [rr |-> [rr EXCEPT !.secondary_len = SIZEOF_SRV_DATA, !.rdata_name = r.name],
     off |-> IF r.ret # off + data_len THEN 0 ELSE off,
     g |-> IF r.ret # off + data_len
           THEN NoteLog(NoteName(g, r), "rdata srv name corruption")
           ELSE NoteName(g, r)]

\* NSEC in the second switch; r is the result of dns_decode_name on the next name
secondary_nsec(off, g, rr, data_len, r) ==
    [rr |-> [rr EXCEPT !.rdata_name = r.name,
                       !.secondary_len = IF r.ret > off + data_len THEN @
                                         ELSE (data_len - (r.ret - off)) % 65536],
     off |-> IF r.ret > off + data_len THEN 0 ELSE off,
     g |-> IF r.ret > off + data_len
           THEN NoteLog(NoteName(g, r), "rdata nsec data name corruption")
           ELSE NoteName(g, r)]

\* the second switch: records with a domain name in the rdata section.
\* off is the offset of RDATA; the result's off is 0 on error.
decode_rr_secondary(off, g, rr, data_len, packet) ==
    IF rr.type = DNS_TYPE_SRV
    THEN secondary_srv(off, g, rr, data_len,
                       dns_decode_name(packet, off + SIZEOF_SRV_DATA, rr.rdata_name))
    ELSE IF rr.type = DNS_TYPE_NSEC
    THEN secondary_nsec(off, g, rr, data_len, dns_decode_name(packet, off, rr.rdata_name))
    ELSE [rr |-> rr, off |-> off, g |-> g]

\* the end of a turn of the loop; s is the outcome of the second switch
rr_store(c, section_type, data_len, known, allowed, s) ==
    IF s.off = 0 THEN rr_fail(c, s.rr, s.g)
    ELSE [st |-> [c.st EXCEPT
                    !.rr_list = PutE(@, c.st.total_rr_count, s.rr, ZeroRR),
                    !.rr_count[section_type + 1] = IF allowed THEN @ + 1 ELSE @,
                    !.total_rr_count = IF allowed THEN @ + 1 ELSE @],
          off |-> s.off + data_len,
          g |-> [s.g EXCEPT !.trace = Append(@,
                   [sec |-> section_type, type |-> s.rr.type, allowed |-> allowed,
                    known |-> known,
                    filtered |-> s.rr.type \in RROwnerFiltered \cup RRDataFiltered,
                    fname |-> IF s.rr.type \in RROwnerFiltered THEN NameBytes(s.rr.name)
                              ELSE IF s.rr.type \in RRDataFiltered
                              THEN NameBytes(s.rr.rdata_name)
                              ELSE <<>>])]]

\* the second switch is entered for the records the first switch allowed
rr_allowed(c, section_type, rr, g, data_len, known, allowed, packet) ==
    rr_store(c, section_type, data_len, known, allowed,
             IF allowed
             THEN decode_rr_secondary(rr.data + SIZEOF_RR_HEADER, g, rr, data_len, packet)
             ELSE [rr |-> rr, off |-> rr.data + SIZEOF_RR_HEADER, g |-> g])

\* a first switch that takes the RDATA name wherever it ends
rr_type_any_end(c, section_type, rr, g, data_len, rn, interface, packet) ==
    rr_allowed(c, section_type,
        IF rr.type \in RRDataFiltered THEN [rr EXCEPT !.rdata_name = rn.name] ELSE rr,
        IF rr.type \in RRDataFiltered THEN NoteName(g, rn) ELSE g,
        data_len,
        rr.type \in RROwnerFiltered \cup RRDataFiltered \cup RRNotFiltered,
        IF rr.type \in RROwnerFiltered THEN allowed_inbound(interface, rr.name)
        ELSE IF rr.type \in RRDataFiltered THEN allowed_inbound(interface, rn.name)
        ELSE rr.type \in RRNotFiltered,
        packet)

\* the first switch; rn is the result of dns_decode_name on RDATA, which the
\* code calls for PTR, CNAME and DNAME only
rr_type(c, section_type, rr, g, data_len, rn, interface, packet) ==
    LET isdata == rr.type \in RRDataFiltered
        known == rr.type \in RROwnerFiltered \cup RRDataFiltered \cup RRNotFiltered
        rr3 == IF isdata THEN [rr EXCEPT !.rdata_name = rn.name] ELSE rr
        g3 == IF isdata THEN NoteName(g, rn) ELSE g
    IN  IF isdata /\ rn.ret # rr.data + SIZEOF_RR_HEADER + data_len
        THEN rr_fail(c, rr3, NoteLog(g3, "rdata ptr name corruption"))
        ELSE rr_allowed(c, section_type, rr3,
                IF known THEN g3
                ELSE NoteLog(NoteLog(g3, "unsupported type in record (dropped)"),
                             "(name, data len)"),
                data_len, known,
                IF rr.type \in RROwnerFiltered THEN allowed_inbound(interface, rr.name)
                ELSE IF isdata THEN allowed_inbound(interface, rn.name)
                ELSE rr.type \in RRNotFiltered,
                packet)

\* one turn of the loop; r is the result of dns_decode_name on the owner name
decode_rr(c, section_type, r, interface, packet) ==
    LET rr0 == GetE(c.st.rr_list, c.st.total_rr_count, ZeroRR)
        g1 == NoteName(c.g, r)
        rr1 == [rr0 EXCEPT !.name = r.name]
        packet_offset == r.ret + SIZEOF_RR_HEADER
        data_len == U16(packet.buffer, r.ret + 8)
        rr2 == [rr0 EXCEPT !.name = r.name, !.data = r.ret, !.type = U16(packet.buffer, r.ret)]
        g2 == NoteRead(g1, r.ret + 9)
    IN  IF r.ret = 0 THEN rr_fail(c, rr1, g1)
        ELSE IF r.ret + SIZEOF_RR_HEADER > packet.bytes
        THEN rr_fail(c, rr1, NoteLog(g1, "malformed record"))
        ELSE IF data_len = 0 \/ packet_offset + data_len > packet.bytes
        THEN rr_fail(c, rr2, NoteLog(g2, "invalid rdata length"))
        ELSE rr_type(c, section_type, rr2, g2, data_len,
                     dns_decode_name(packet, packet_offset, rr0.rdata_name),
                     interface, packet)

RECURSIVE decode_rrs_loop(_, _, _, _, _, _)
decode_rrs_loop(c, section_type, index, count, interface, packet) ==
    IF c.off = 0 \/ index >= count THEN c
    ELSE decode_rrs_loop(
            decode_rr(c, section_type,
                dns_decode_name(packet, c.off,
                                GetE(c.st.rr_list, c.st.total_rr_count, ZeroRR).name),
                interface, packet),
            section_type, index + 1, count, interface, packet)

dns_decode_rrs(c, section_type, count, interface, packet) ==
    decode_rrs_loop([c EXCEPT !.st.rr_index[section_type + 1] = c.st.total_rr_count],
                    section_type, 0, count, interface, packet)

----------------------------------------------------------------------------
(* dns_decode.c: dns_decode_packet.  ret is the function's return value.   *)

RECURSIVE decode_sections(_, _, _, _)
decode_sections(c, rr_section_type, interface, packet) ==
    IF rr_section_type >= NUM_RR_SECTION_TYPES THEN c
    ELSE decode_sections(
            IF c.off # 0 /\ c.st.recv_rr_count[rr_section_type + 1] # 0
            THEN dns_decode_rrs(c, rr_section_type, c.st.recv_rr_count[rr_section_type + 1],
                                interface, packet)
            ELSE c,
            rr_section_type + 1, interface, packet)

\* no look at the length that was consumed
decode_done_any_length(c, packet) ==
    IF c.st.query_count = 0 /\ c.st.rr_count = <<0, 0, 0>>
    THEN [st |-> c.st, ret |-> 0, g |-> c.g]
    ELSE [st |-> c.st, ret |-> c.off, g |-> c.g]

\* the checks behind the sections
decode_done(c, packet) ==
    IF c.off # packet.bytes
    THEN [st |-> c.st, ret |-> 0, g |-> NoteLog(c.g, "decoded length != packet length")]
    ELSE IF c.st.query_count = 0 /\ c.st.rr_count = <<0, 0, 0>>
    THEN [st |-> c.st, ret |-> 0, g |-> c.g]
    ELSE [st |-> c.st, ret |-> c.off, g |-> c.g]

dns_decode_packet(dns_state, packet, interface) ==
    decode_done(
        decode_sections(
            dns_decode_queries(
                dns_decode_header([dns_state EXCEPT !.query_count = 0,
                                                    !.rr_count = <<0, 0, 0>>,
                                                    !.total_rr_count = 0], packet),
                interface, packet),
            0, interface, packet),
        packet)

----------------------------------------------------------------------------
(* dns_encode.c: the compression list *)

ZeroEntry == [label |-> <<>>, child_index |-> 0, child_allocated |-> 0, child_used |-> 0,
              pointer |-> 0]

Entry(l, ci, ca, cu) == [label |-> l, child_index |-> ci, child_allocated |-> ca,
                         child_used |-> cu, pointer |-> 0]

\* an initializer whose seeded labels carry pointers as if they had been
\* written behind the header
clist_initializer_emitted ==
    << Entry(<<>>, 1, 1, 1),
       [Entry(L_local, 2, 2, 1) EXCEPT !.pointer = 49152 + 17],
       [Entry(L_tcp, 4, 4, 0) EXCEPT !.pointer = 49152 + 12],
       ZeroEntry,
       ZeroEntry, ZeroEntry, ZeroEntry, ZeroEntry >>

clist_initializer ==
    << Entry(<<>>, 1, 1, 1),
       Entry(L_local, 2, 2, 1),
       Entry(L_tcp, 4, 4, 0),
       ZeroEntry,
       ZeroEntry, ZeroEntry, ZeroEntry, ZeroEntry >>

clist_initializer_count == Len(clist_initializer)

\* clist_alloc: the list starts with 16 times the initializer, all zero
clist_alloc(state) ==
    [state EXCEPT !.clist = <<>>, !.allocated_clist_count = clist_initializer_count * 16]

clist_reset(state) ==
    [state EXCEPT
        !.clist = AsSeq([k \in 1..Max(Len(state.clist), clist_initializer_count) |->
                           IF k <= clist_initializer_count THEN clist_initializer[k]
                           ELSE IF k <= state.used_clist_count THEN ZeroEntry
                           ELSE state.clist[k]]),
        !.used_clist_count = clist_initializer_count]

\* the list as clist_expand leaves it when realloc succeeded
clist_expand(state, count) ==
    [realloc_done(state) EXCEPT !.allocated_clist_count = @ + count]

\* the gap opened with the child indexes left as they were
clist_shift_unfixed(state, index, count) ==
    [index |-> index,
     st |-> [state EXCEPT
               !.clist = IF index < state.used_clist_count
                         THEN AsSeq([k \in 1..(state.used_clist_count + count) |->
                                 IF k - 1 < index THEN GetE(state.clist, k - 1, ZeroEntry)
                                 ELSE IF k - 1 < index + count THEN ZeroEntry
                                 ELSE GetE(state.clist, k - 1 - count, ZeroEntry)])
                         ELSE @,
               !.used_clist_count = @ + count]]

\* the entries from index on move up by count, the hole is zeroed and the
\* child indexes behind it are adjusted
clist_shift(state, index, count) ==
    LET Fix(e) == IF e.child_index >= index
                  THEN [e EXCEPT !.child_index = (@ + count) % 65536]
                  ELSE e
    IN  [index |-> index,
         st |-> [state EXCEPT
                   !.clist = IF index < state.used_clist_count
                             THEN AsSeq([k \in 1..(state.used_clist_count + count) |->
                                     IF k - 1 < index
                                     THEN Fix(GetE(state.clist, k - 1, ZeroEntry))
                                     ELSE IF k - 1 < index + count THEN ZeroEntry
                                     ELSE Fix(GetE(state.clist, k - 1 - count, ZeroEntry))])
                             ELSE @,
                   !.used_clist_count = @ + count]]

\* result: index (0 on allocation failure) and the state
clist_open(state, index, count) ==
    IF state.used_clist_count + count >= state.allocated_clist_count
       /\ realloc_fails(state)
    THEN [index |-> 0, st |-> state]
    ELSE clist_shift(IF state.used_clist_count + count >= state.allocated_clist_count
                     THEN clist_expand(state, count)
                     ELSE state,
                     index, count)

\* the new child is entered: o is the slot (from clist_open when the parent's
\* range had to grow)
clist_set_child(parent, label, grow, count, o) ==
    LET pa == GetE(o.st.clist, parent, ZeroEntry)
        pb == [pa EXCEPT !.child_allocated = IF grow THEN (@ + count) % 65536 ELSE @,
                         !.child_used = (@ + 1) % 65536]
        cl == PutE(o.st.clist, parent, pb, ZeroEntry)
    IN  IF o.index = 0 THEN [index |-> 0, st |-> o.st]
        ELSE [index |-> o.index,
              st |-> [o.st EXCEPT !.clist =
                        PutE(cl, o.index,
                             [GetE(cl, o.index, ZeroEntry) EXCEPT !.label = label],
                             ZeroEntry)]]

\* no child has the label: p1 is the parent with its range started
clist_add_child(state, parent, label, p1) ==
    clist_set_child(parent, label,
        p1.child_used >= p1.child_allocated,
        IF p1.child_allocated # 0 THEN p1.child_allocated ELSE 1,
        IF p1.child_used >= p1.child_allocated
        THEN clist_open([state EXCEPT !.clist = PutE(@, parent, p1, ZeroEntry)],
                        p1.child_index + p1.child_used,
                        IF p1.child_allocated # 0 THEN p1.child_allocated ELSE 1)
        ELSE [index |-> p1.child_index + p1.child_used,
              st |-> [state EXCEPT !.clist = PutE(@, parent, p1, ZeroEntry)]])

\* result: the child's index (0 on allocation failure) and the state
clist_get_child(state, parent, label) ==
    LET p == GetE(state.clist, parent, ZeroEntry)
        hits == {index \in p.child_index..(p.child_index + p.child_used - 1) :
                    GetE(state.clist, index, ZeroEntry).label = label}
    IN  IF hits # {}
        THEN [index |-> CHOOSE index \in hits : \A other \in hits : index <= other, st |-> state]
        ELSE clist_add_child(state, parent, label,
                IF p.child_allocated = 0
                THEN [p EXCEPT !.child_index = state.used_clist_count % 65536]
                ELSE p)

SetPointer(state, index, pointer) ==
    [state EXCEPT !.clist = PutE(@, index,
        [GetE(state.clist, index, ZeroEntry) EXCEPT !.pointer = pointer], ZeroEntry)]

----------------------------------------------------------------------------
(* dns_encode.c: dns_encode_name.  Result: the next offset (0 on           *)
(* allocation failure), the state and the send packet.                     *)

\* label = name->labels + name->offset[name_index], as its length byte and bytes
LabelAt(name, name_index) ==
    Sub(name.labels, Rd(name.offset, name_index),
        Rd(name.labels, Rd(name.offset, name_index)) + 1)

\* the search loop: ends with "ptr" (whole name is a duplicate), "brk" (first
\* label that is not yet in the packet) or "fail"; "go" while it runs

\* one turn of the search loop; c is the result of clist_get_child
search_child(name, s, c) ==
    LET r == [how |-> "fail", st |-> c.st, parent_index |-> s.parent_index,
              child_index |-> c.index, remaining |-> s.remaining - 1,
              name_index |-> s.remaining - 1, label |-> LabelAt(name, s.remaining - 1)]
    IN  IF c.index = 0 THEN r
        ELSE IF GetE(c.st.clist, c.index, ZeroEntry).pointer = 0
        THEN [r EXCEPT !.how = "brk"]
        ELSE IF s.remaining - 1 <= 0
        THEN [r EXCEPT !.how = "ptr"]
        ELSE [r EXCEPT !.how = "go", !.parent_index = c.index]

search_turn(name, s) ==
    IF s.how # "go" THEN s
    ELSE search_child(name, s,
            clist_get_child(s.st, s.parent_index, LabelAt(name, s.remaining - 1)))

RECURSIVE search_loop(_, _)
search_loop(name, s) ==
    IF s.how # "go" THEN s
    ELSE search_loop(name, search_turn(name, search_turn(name, search_turn(name, s))))

encode_search(state, name, parent_index, remaining0) ==
    search_loop(name,
        [how |-> "go", st |-> state, parent_index |-> parent_index, child_index |-> 0,
         remaining |-> remaining0, name_index |-> remaining0, label |-> <<>>])

\* the loop that adds the remaining labels to the compression list

\* one turn of the add loop; c is the result of clist_get_child
add_child(name, packet_offset, a, c) ==
    IF c.index = 0 THEN [a EXCEPT !.ok = FALSE, !.st = c.st]
    ELSE [ok |-> TRUE,
          st |-> SetPointer(c.st, c.index,
                    OFFSET_TO_POINTER(packet_offset + Rd(name.offset, a.remaining - 1))),
          child_index |-> c.index, remaining |-> a.remaining - 1]

add_turn(name, packet_offset, a) ==
    IF a.remaining <= 0 \/ ~a.ok THEN a
    ELSE add_child(name, packet_offset, a,
            clist_get_child(a.st, a.child_index, LabelAt(name, a.remaining - 1)))

RECURSIVE add_loop(_, _, _)
add_loop(name, packet_offset, a) ==
    IF a.remaining <= 0 \/ ~a.ok THEN a
    ELSE add_loop(name, packet_offset,
            add_turn(name, packet_offset,
                add_turn(name, packet_offset, add_turn(name, packet_offset, a))))

encode_add(state, name, packet_offset, child_index0, remaining0) ==
    add_loop(name, packet_offset,
        [ok |-> TRUE, st |-> state, child_index |-> child_index0, remaining |-> remaining0])

\* the end of the name: a pointer to the ancestor, or the root label; a is
\* the outcome of the add loop, off1 the offset behind the labels written
name_end(send1, off1, ancestor_index, a) ==
    LET anc == GetE(a.st.clist, ancestor_index, ZeroEntry).pointer
    IN  IF ~a.ok THEN [ret |-> 0, st |-> a.st, send |-> send1]
        ELSE IF anc # 0
        THEN [ret |-> off1 + 2, st |-> a.st,
              send |-> [send1 EXCEPT !.buffer = PutSeq(@, off1, B16(anc))]]
        ELSE [ret |-> off1 + 1, st |-> a.st,
              send |-> [send1 EXCEPT !.buffer = Put(@, off1, 0)]]

\* behind the search loop; s is its outcome
name_labels(send_packet, packet_offset, name, s) ==
    LET copy_len == Rd(name.offset, s.name_index) + s.label[1] + 1
    IN  IF s.how = "fail" THEN [ret |-> 0, st |-> s.st, send |-> send_packet]
        ELSE IF /\ s.how = "brk"
                /\ s.st.used_clist_count + s.remaining > s.st.allocated_clist_count
                /\ realloc_fails(s.st)
        THEN [ret |-> 0, st |-> s.st, send |-> send_packet]
        ELSE IF s.how = "ptr"
        THEN [ret |-> packet_offset + 2, st |-> s.st,
              send |-> [send_packet EXCEPT !.buffer = PutSeq(@, packet_offset,
                           B16(GetE(s.st.clist, s.child_index, ZeroEntry).pointer))]]
        ELSE name_end(
                [send_packet EXCEPT !.buffer = PutSeq(@, packet_offset,
                                                 Sub(name.labels, 0, copy_len))],
                packet_offset + copy_len,
                s.parent_index,
                encode_add(
                    SetPointer(
                        IF s.st.used_clist_count + s.remaining > s.st.allocated_clist_count
                        THEN clist_expand(s.st, s.remaining)
                        ELSE s.st,
                        s.child_index,
                        OFFSET_TO_POINTER(packet_offset + Rd(name.offset, s.name_index))),
                    name, packet_offset, s.child_index, s.remaining))

dns_encode_name(state, send_packet, packet_offset, name) ==
    IF name.count <= 1
    THEN [ret |-> packet_offset + 1, st |-> state,
          send |-> [send_packet EXCEPT !.buffer = Put(@, packet_offset, 0)]]
    ELSE name_labels(send_packet, packet_offset, name,
                     encode_search(state, name, 0, name.count - 1))

----------------------------------------------------------------------------
(* dns_encode.c: dns_encode_queries, dns_encode_rrs, dns_encode_packet.    *)
(* e carries the state, the send packet, the write offset, the counts of   *)
(* entries written (queries, then the three sections) and one record per   *)
(* entry written.                                                          *)

QueryOutFiltered == {DNS_TYPE_SRV, DNS_TYPE_TXT, DNS_TYPE_ANY}

RROutOwnerFiltered == {DNS_TYPE_SRV, DNS_TYPE_TXT, DNS_TYPE_HINFO}

RROutDataFiltered == {DNS_TYPE_PTR, DNS_TYPE_CNAME, DNS_TYPE_DNAME}

query_allowed_outbound(send_filter_list, query) ==
    IF query.type \in QueryOutFiltered
    THEN allowed_outbound(send_filter_list, query.name)
    ELSE TRUE

rr_allowed_outbound(send_filter_list, rr) ==
    IF rr.type \in RROutOwnerFiltered THEN allowed_outbound(send_filter_list, rr.name)
    ELSE IF rr.type \in RROutDataFiltered THEN allowed_outbound(send_filter_list, rr.rdata_name)
    ELSE TRUE

\* one query is written; n is the result of dns_encode_name on its name
encode_query(e, index, query, recv_packet, n) ==
    [st |-> n.st,
     send |-> [n.send EXCEPT !.buffer = PutSeq(@, n.ret,
                  Sub(recv_packet.buffer, query.data, SIZEOF_QUERY_HEADER))],
     off |-> n.ret + SIZEOF_QUERY_HEADER,
     counts |-> [e.counts EXCEPT ![1] = @ + 1],
     trace |-> Append(e.trace,
         [sec |-> -1, slot |-> index, type |-> query.type, start |-> e.off,
          hdr |-> n.ret, rdata |-> n.ret + SIZEOF_QUERY_HEADER,
          end |-> n.ret + SIZEOF_QUERY_HEADER, nameend |-> n.ret])]

\* one turn of the loop
query_turn(e, index, query, recv_packet, send_filter_list) ==
    IF ~query_allowed_outbound(send_filter_list, query) THEN e
    ELSE encode_query(e, index, query, recv_packet,
                      dns_encode_name(e.st, e.send, e.off, query.name))

RECURSIVE encode_queries_loop(_, _, _, _)
encode_queries_loop(e, index, recv_packet, send_filter_list) ==
    IF index >= e.st.query_count THEN e
    ELSE encode_queries_loop(
            query_turn(e, index, GetE(e.st.query_list, index, ZeroQuery),
                       recv_packet, send_filter_list),
            index + 1, recv_packet, send_filter_list)

dns_encode_queries(e, recv_packet, send_filter_list) ==
    encode_queries_loop(e, 0, recv_packet, send_filter_list)

\* an rdata name is written; n is the result of dns_encode_name, trailing the
\* bytes copied behind the name
rdata_name(n, trailing) ==
    [ret |-> n.ret + Len(trailing), st |-> n.st,
     send |-> [n.send EXCEPT !.buffer = PutSeq(@, n.ret, trailing)],
     nameend |-> n.ret]

\* the rdata switch: result is the dns_encode_name style record after RDATA,
\* nameend is the offset behind the rdata name (for the types that have one)
encode_rdata(st, send, packet_offset, rr, recv_packet) ==
    LET src == rr.data + SIZEOF_RR_HEADER
        rdata_len == U16(recv_packet.buffer, rr.data + 8)
    IN  IF rr.type \in {DNS_TYPE_PTR, DNS_TYPE_CNAME, DNS_TYPE_DNAME}
        THEN rdata_name(dns_encode_name(st, send, packet_offset, rr.rdata_name), <<>>)
        ELSE IF rr.type = DNS_TYPE_SRV
        THEN rdata_name(
                dns_encode_name(st,
                    [send EXCEPT !.buffer = PutSeq(@, packet_offset,
                                               Sub(recv_packet.buffer, src, rr.secondary_len))],
                    packet_offset + rr.secondary_len, rr.rdata_name),
                <<>>)
        ELSE IF rr.type = DNS_TYPE_NSEC
        THEN rdata_name(dns_encode_name(st, send, packet_offset, rr.rdata_name),
                        Sub(recv_packet.buffer, src + rdata_len - rr.secondary_len,
                            rr.secondary_len))
        ELSE [ret |-> packet_offset + rdata_len, st |-> st,
              send |-> [send EXCEPT !.buffer = PutSeq(@, packet_offset,
                            Sub(recv_packet.buffer, src, rdata_len))],
              nameend |-> packet_offset]

\* the record is complete: hdr is the offset of its fixed header, d the
\* outcome of the rdata switch; the rdata length is set from what was written
rr_done(e, section_type, index, rr, hdr, d) ==
    [st |-> d.st,
     send |-> [d.send EXCEPT !.buffer = PutSeq(@, hdr + 8,
                  B16((d.ret - (hdr + SIZEOF_RR_HEADER)) % 65536))],
     off |-> d.ret,
     counts |-> [e.counts EXCEPT ![section_type + 2] = @ + 1],
     trace |-> Append(e.trace,
         [sec |-> section_type, slot |-> index, type |-> rr.type, start |-> e.off,
          hdr |-> hdr, rdata |-> hdr + SIZEOF_RR_HEADER, end |-> d.ret,
          nameend |-> d.nameend])]

\* one record is written; n is the result of dns_encode_name on the owner
\* name.  Type, class and ttl are copied, the rdata length is set in rr_done.
encode_rr(e, section_type, index, rr, recv_packet, n) ==
    rr_done(e, section_type, index, rr, n.ret,
        encode_rdata(n.st,
            [n.send EXCEPT !.buffer = PutSeq(@, n.ret, Sub(recv_packet.buffer, rr.data, 8))],
            n.ret + SIZEOF_RR_HEADER, rr, recv_packet))

\* one turn of the loop
rr_turn(e, section_type, index, rr, recv_packet, send_filter_list) ==
    IF ~rr_allowed_outbound(send_filter_list, rr) THEN e
    ELSE encode_rr(e, section_type, index, rr, recv_packet,
                   dns_encode_name(e.st, e.send, e.off, rr.name))

RECURSIVE encode_rrs_loop(_, _, _, _, _)
encode_rrs_loop(e, section_type, index, recv_packet, send_filter_list) ==
    IF index >= e.st.rr_index[section_type + 1] + e.st.rr_count[section_type + 1] THEN e
    ELSE encode_rrs_loop(
            rr_turn(e, section_type, index, GetE(e.st.rr_list, index, ZeroRR),
                    recv_packet, send_filter_list),
            section_type, index + 1, recv_packet, send_filter_list)

dns_encode_rrs(e, section_type, recv_packet, send_filter_list) ==
    encode_rrs_loop(e, section_type, e.st.rr_index[section_type + 1],
                    recv_packet, send_filter_list)

RECURSIVE encode_sections(_, _, _, _)
encode_sections(e, rr_section_type, recv_packet, send_filter_list) ==
    IF rr_section_type >= NUM_RR_SECTION_TYPES THEN e
    ELSE encode_sections(dns_encode_rrs(e, rr_section_type, recv_packet, send_filter_list),
                         rr_section_type + 1, recv_packet, send_filter_list)

\* a header filled with the counts the decoder kept, not the counts written
encode_done_kept_counts(e, recv_packet, send_filter_list) ==
    IF e.counts = <<0, 0, 0, 0>>
    THEN [ret |-> 0, st |-> e.st, send |-> e.send, counts |-> e.counts, trace |-> e.trace,
          filter |-> send_filter_list]
    ELSE [ret |-> e.off, st |-> e.st,
          send |-> [e.send EXCEPT
                      !.buffer = PutSeq(@, 0,
                          Sub(recv_packet.buffer, 0, 4) \o B16(e.st.query_count)
                          \o B16(e.st.rr_count[1]) \o B16(e.st.rr_count[2])
                          \o B16(e.st.rr_count[3])),
                      !.bytes = e.off],
          counts |-> e.counts, trace |-> e.trace, filter |-> send_filter_list]

\* behind the sections: nothing is left, or the header is filled in.  The
\* result is ret (0 when everything was filtered), the state, the send
\* packet, the four counts and the records written
encode_done(e, recv_packet, send_filter_list) ==
    IF e.counts = <<0, 0, 0, 0>>
    THEN [ret |-> 0, st |-> e.st, send |-> e.send, counts |-> e.counts, trace |-> e.trace,
          filter |-> send_filter_list]
    ELSE [ret |-> e.off, st |-> e.st,
          send |-> [e.send EXCEPT
                      !.buffer = PutSeq(@, 0,
                          Sub(recv_packet.buffer, 0, 4) \o B16(e.counts[1])
                          \o B16(e.counts[2]) \o B16(e.counts[3]) \o B16(e.counts[4])),
                      !.bytes = e.off],
          counts |-> e.counts, trace |-> e.trace, filter |-> send_filter_list]

dns_encode_packet(dns_state, recv_packet, send_packet, send_filter_list) ==
    encode_done(
        encode_sections(
            dns_encode_queries(
                [st |-> clist_reset(dns_state), send |-> send_packet,
                 off |-> SIZEOF_DNS_HEADER, counts |-> <<0, 0, 0, 0>>, trace |-> <<>>],
                recv_packet, send_filter_list),
            0, recv_packet, send_filter_list),
        recv_packet, send_filter_list)

----------------------------------------------------------------------------
(* dns_decode.c: dns_state_create *)

dns_state_create ==
    clist_alloc(
        [recv_query_count |-> 0, recv_rr_count |-> <<0, 0, 0>>,
         query_count |-> 0, rr_index |-> <<0, 0, 0>>, rr_count |-> <<0, 0, 0>>,
         total_rr_count |-> 0,
         allocated_query_count |-> INITIAL_QUERY_COUNT,
         allocated_rr_count |-> INITIAL_RESOURCE_COUNT,
         query_list |-> <<>>, rr_list |-> <<>>, reallocs |-> -1,
         used_clist_count |-> 0, allocated_clist_count |-> 0, clist |-> <<>>])

----------------------------------------------------------------------------
(* interface.c: build_interface_peer_lists, for the interfaces of one      *)
(* family.  Interfaces are referenced by their index in interface_list.    *)

ZeroInterface == [inbound_filter_list |-> NULL, outbound_filter_list |-> NULL,
                  peer_list |-> <<>>, peer_count |-> 0,
                  peer_filter_list |-> <<>>, peer_filter_count |-> 0,
                  peer_nofilter_count |-> 0]

\* the peer is appended; its outbound list is counted
add_peer(interface, peer_index, f) ==
    [interface EXCEPT
        !.peer_list = Append(@, peer_index),
        !.peer_count = @ + 1,
        !.peer_filter_list =
            IF f # NULL /\ ~\E filter_index \in 1..interface.peer_filter_count :
                               interface.peer_filter_list[filter_index] = f
            THEN Append(@, f) ELSE @,
        !.peer_filter_count =
            IF f # NULL /\ ~\E filter_index \in 1..interface.peer_filter_count :
                               interface.peer_filter_list[filter_index] = f
            THEN @ + 1 ELSE @,
        !.peer_nofilter_count = IF f = NULL THEN @ + 1 ELSE @]

\* a pass over the family that does not skip the interface itself
RECURSIVE process_peers_with_self(_, _, _, _)
process_peers_with_self(ifs, index, peer_index, interface) ==
    IF peer_index > Len(ifs) THEN interface
    ELSE process_peers_with_self(ifs, index, peer_index + 1,
             add_peer(interface, peer_index, ifs[peer_index].outbound_filter_list))

RECURSIVE process_peers(_, _, _, _)
process_peers(ifs, index, peer_index, interface) ==
    IF peer_index > Len(ifs) THEN interface
    ELSE IF peer_index = index THEN process_peers(ifs, index, peer_index + 1, interface)
    ELSE process_peers(ifs, index, peer_index + 1,
                       add_peer(interface, peer_index, ifs[peer_index].outbound_filter_list))

build_interface_peer_lists(ifs) ==
    [index \in 1..Len(ifs) |-> process_peers(ifs, index, 1, ifs[index])]

----------------------------------------------------------------------------
(* bridge.c: receive.  The result is the worker's storage afterwards, the  *)
(* sendto calls in order, the log lines, and the record of the wake-up.    *)

local_storage_create ==
    [recv_packet |-> [bytes |-> 0, buffer |-> <<>>],
     send_packet |-> [bytes |-> 0, buffer |-> <<>>],
     dns_state |-> dns_state_create]

\* a pass over the peer list that starts at its end
RECURSIVE send_peers_last_first(_, _, _, _, _)
send_peers_last_first(interface, peer_index, filter_list, packet, enc) ==
    IF peer_index >= interface.peer_count THEN <<>>
    ELSE send_peers_last_first(interface, peer_index + 1, filter_list, packet, enc)
         \o (IF interface_list[interface.peer_list[peer_index + 1]].outbound_filter_list
                = filter_list
             THEN <<[peer |-> interface.peer_list[peer_index + 1], bytes |-> packet.bytes,
                     data |-> Sub(packet.buffer, 0, packet.bytes),
                     filter |-> filter_list, enc |-> enc]>>
             ELSE <<>>)

\* a pass over the peer list that ends at the first sendto that fails
RECURSIVE send_peers_until_error(_, _, _, _, _)
send_peers_until_error(interface, peer_index, filter_list, packet, enc) ==
    IF peer_index >= interface.peer_count THEN <<>>
    ELSE IF interface_list[interface.peer_list[peer_index + 1]].outbound_filter_list
               # filter_list
    THEN send_peers_until_error(interface, peer_index + 1, filter_list, packet, enc)
    ELSE <<[peer |-> interface.peer_list[peer_index + 1], bytes |-> packet.bytes,
            data |-> Sub(packet.buffer, 0, packet.bytes),
            filter |-> filter_list, enc |-> enc]>>
         \o (IF interface.peer_list[peer_index + 1] \in down THEN <<>>
             ELSE send_peers_until_error(interface, peer_index + 1, filter_list,
                                         packet, enc))

\* the sendto calls of one pass over the peer list, for the peers whose
\* outbound filter list is filter_list
\* a pass over the peer list that sends to every peer, whatever its list
RECURSIVE send_peers_every(_, _, _, _, _)
send_peers_every(interface, peer_index, filter_list, packet, enc) ==
    IF peer_index >= interface.peer_count THEN <<>>
    ELSE <<[peer |-> interface.peer_list[peer_index + 1], bytes |-> packet.bytes,
            data |-> Sub(packet.buffer, 0, packet.bytes),
            filter |-> filter_list, enc |-> enc]>>
         \o send_peers_every(interface, peer_index + 1, filter_list, packet, enc)

RECURSIVE send_peers(_, _, _, _, _)
send_peers(interface, peer_index, filter_list, packet, enc) ==
    IF peer_index >= interface.peer_count THEN <<>>
    ELSE (IF interface_list[interface.peer_list[peer_index + 1]].outbound_filter_list
             = filter_list
          THEN <<[peer |-> interface.peer_list[peer_index + 1], bytes |-> packet.bytes,
                  data |-> Sub(packet.buffer, 0, packet.bytes),
                  filter |-> filter_list, enc |-> enc]>>
          ELSE <<>>)
         \o send_peers(interface, peer_index + 1, filter_list, packet, enc)

\* the record kept of one dns_encode_packet call
EncRecord(enc) ==
    [filter |-> enc.filter, ret |-> enc.ret, counts |-> enc.counts, trace |-> enc.trace,
     out |-> Sub(enc.send.buffer, 0, enc.send.bytes)]

\* the send packet goes out whatever dns_encode_packet returned
send_unchecked(w, interface, filter_list, enc, checked) ==
    [ls |-> [w.ls EXCEPT !.dns_state = enc.st, !.send_packet = enc.send],
     encs |-> Append(w.encs, EncRecord(enc)),
     sent |-> w.sent \o send_peers(interface, 0, filter_list, enc.send, Len(w.encs) + 1)]

\* the send packet goes to the peers of one filter list; enc is the result
\* of dns_encode_packet, whose return value is looked at when checked
send_encoded(w, interface, filter_list, enc, checked) ==
    [ls |-> [w.ls EXCEPT !.dns_state = enc.st, !.send_packet = enc.send],
     encs |-> Append(w.encs, EncRecord(enc)),
     sent |-> IF checked /\ enc.ret = 0 THEN w.sent
              ELSE w.sent \o send_peers(interface, 0, filter_list, enc.send,
                                        Len(w.encs) + 1)]

\* the peers with outbound filters, one encoding per distinct filter list
RECURSIVE forward_filtered(_, _, _)
forward_filtered(w, interface, filter_index) ==
    IF filter_index >= interface.peer_filter_count THEN w
    ELSE forward_filtered(
            send_encoded(w, interface, interface.peer_filter_list[filter_index + 1],
                dns_encode_packet(w.ls.dns_state, w.ls.recv_packet, w.ls.send_packet,
                                  interface.peer_filter_list[filter_index + 1]),
                TRUE),
            interface, filter_index + 1)

\* the peers without outbound filters are sent the receive packet whatever
\* lists there are
forward_nofilter_received(w, interface) ==
    IF interface.peer_nofilter_count = 0 THEN w
    ELSE [w EXCEPT !.sent = send_peers(interface, 0, NULL, w.ls.recv_packet, 0)]

\* the peers without outbound filters
forward_nofilter(w, interface) ==
    IF interface.peer_nofilter_count = 0 THEN w
    ELSE IF global_filter_list # NULL \/ interface.inbound_filter_list # NULL
    THEN send_encoded(w, interface, NULL,
            dns_encode_packet(w.ls.dns_state, w.ls.recv_packet, w.ls.send_packet, NULL),
            FALSE)
    ELSE [w EXCEPT !.sent = send_peers(interface, 0, NULL, w.ls.recv_packet, 0)]

\* sendto returned -1 for this call
sendto_failed(call) == call.peer \in down

\* the lines logged for the sendto calls that failed
sendto_errors(calls) ==
    AsSeq([k \in 1..Len(SelectSeq(calls, sendto_failed)) |-> "sendto error"])

\* the outcome of a wake-up
wake_up(rec, w) ==
    [ls |-> w.ls, sent |-> w.sent, log |-> rec.g.log \o sendto_errors(w.sent),
     ev |-> [rec EXCEPT !.encs = w.encs]]

\* a worker that drops on a decoder result of 0 whether or not it decoded
receive_decoded_validating(ls, interface, data, d) ==
    IF d.ret = 0
    THEN wake_up([interface |-> interface, data |-> data, decoded |-> filtering_enabled,
                  ret |-> d.ret, g |-> d.g, encs |-> <<>>],
                 [ls |-> [ls EXCEPT !.dns_state = d.st], encs |-> <<>>, sent |-> <<>>])
    ELSE wake_up([interface |-> interface, data |-> data, decoded |-> filtering_enabled,
                  ret |-> d.ret, g |-> d.g, encs |-> <<>>],
                 forward_filtered(
                    forward_nofilter(
                        [ls |-> [ls EXCEPT !.dns_state = d.st], encs |-> <<>>, sent |-> <<>>],
                        interface_list[interface]),
                    interface_list[interface], 0))

\* behind the decoder; d is the result of dns_decode_packet (with filtering
\* disabled the decoder is not called)
receive_decoded(ls, interface, data, d) ==
    IF filtering_enabled /\ d.ret = 0
    THEN wake_up([interface |-> interface, data |-> data, decoded |-> filtering_enabled,
                  ret |-> d.ret, g |-> d.g, encs |-> <<>>],
                 [ls |-> [ls EXCEPT !.dns_state = d.st], encs |-> <<>>, sent |-> <<>>])
    ELSE wake_up([interface |-> interface, data |-> data, decoded |-> filtering_enabled,
                  ret |-> d.ret, g |-> d.g, encs |-> <<>>],
                 forward_filtered(
                    forward_nofilter(
                        [ls |-> [ls EXCEPT !.dns_state = d.st], encs |-> <<>>, sent |-> <<>>],
                        interface_list[interface]),
                    interface_list[interface], 0))

\* the datagram is in the receive buffer: bytes behind it keep their value
received(ls, data) ==
    [ls EXCEPT !.recv_packet = [bytes |-> Len(data),
                                buffer |-> PutSeq(ls.recv_packet.buffer, 0, data)]]

\* ls holds the datagram
receive_packet(ls, interface, data) ==
    receive_decoded(ls, interface, data,
        IF filtering_enabled
        THEN dns_decode_packet(ls.dns_state, ls.recv_packet, interface)
        ELSE [st |-> ls.dns_state, ret |-> 0, g |-> ZeroNote])

receive(ls, interface, data) == receive_packet(received(ls, data), interface, data)

----------------------------------------------------------------------------
(* Datagrams *)

Ptr(off) == <<192 + (off \div 256), off % 256>>

Hdr(qd, an, ns, ar) == <<18, 52, 132, 0>> \o B16(qd) \o B16(an) \o B16(ns) \o B16(ar)

Q(name, type) == name \o B16(type) \o <<0, 1>>

\* a record whose RDATA length field is len
RRL(name, type, len, rdata) ==
    name \o B16(type) \o <<128, 1, 0, 0, 0, 120>> \o B16(len) \o rdata

RR(name, type, rdata) == RRL(name, type, Len(rdata), rdata)

W_local == L_local \o <<0>>
W_ab == L_a \o L_b \o <<0>>
W_ipp == L_a \o L_ipp \o L_tcp \o L_local \o <<0>>
W_ssh == L_b \o L_ssh \o L_tcp \o L_local \o <<0>>
W_svc == L_ipp \o L_tcp \o L_local \o <<0>>

\* the same service in capitals
L_IPP == <<4, 95, 73, 80, 80>>
W_IPP == L_a \o L_IPP \o L_tcp \o L_local \o <<0>>

\* a type the bridge does not support (mail exchange)
DNS_TYPE_MX == 15

----------------------------------------------------------------------------
(* Bounds *)

MaxPackets == 2

NumInterfaces == 3

MaxNames == 3

----------------------------------------------------------------------------
(* Configurations: the state read_config and set_ip_interface_lists leave  *)
(* behind.  Interface 1 may have an inbound list, interface 2 and the      *)
(* interfaces behind it may have outbound lists.                           *)

Config(fe, g, in1, out2, out3) ==
    [filtering_enabled |-> fe, global_filter_list |-> g,
     interfaces |-> [i \in 1..NumInterfaces |->
        [ZeroInterface EXCEPT
            !.inbound_filter_list = IF i = 1 THEN in1 ELSE NULL,
            !.outbound_filter_list = IF i = 2 THEN out2 ELSE IF i >= 3 THEN out3 ELSE NULL]]]

\* datagrams with good and bad compression pointers, short datagrams
PtrData ==
    { Hdr(0, 1, 0, 0) \o RR(W_ab, DNS_TYPE_A, <<10, 0, 0, 1>>),
      Hdr(0, 1, 0, 0) \o RR(W_ipp, DNS_TYPE_PTR, Ptr(12)),
      Hdr(0, 1, 0, 0) \o RR(W_ab, DNS_TYPE_PTR, Ptr(5)),
      Hdr(0, 1, 0, 0) \o RR(W_ab, DNS_TYPE_PTR, L_b \o Ptr(29)),
      Hdr(0, 1, 0, 0) \o RR(W_ab, DNS_TYPE_SRV, <<0, 0, 0, 0, 0, 80>> \o L_a \o Ptr(14)),
      Hdr(0, 1, 0, 0) \o RR(W_ab, DNS_TYPE_SRV, <<0, 0, 0, 0, 0, 80>> \o Ptr(11)),
      Hdr(0, 1, 0, 0) \o RR(W_ipp, DNS_TYPE_NSEC, Ptr(12) \o <<0, 1, 64>>),
      Hdr(0, 1, 0, 0) \o RR(W_ab, DNS_TYPE_NSEC, L_b \o Ptr(5) \o <<0, 1, 64>>),
      Hdr(1, 0, 0, 0) \o Q(L_a \o Ptr(3), DNS_TYPE_PTR),
      Hdr(1, 1, 0, 0) \o Q(W_ab, DNS_TYPE_PTR) \o RR(Ptr(12), DNS_TYPE_PTR, Ptr(14)),
      Hdr(1, 0, 0, 0),
      Hdr(0, 1, 0, 0) \o RR(W_ab, DNS_TYPE_PTR, <<192>>),
      Hdr(0, 1, 0, 0) \o RR(W_ab, DNS_TYPE_SRV, <<7>>) }

\* well formed datagrams of every supported type, and of an unsupported one
TypeData ==
    { Hdr(0, 1, 0, 0) \o RR(W_ipp, DNS_TYPE_SRV, <<0, 0, 0, 0, 2, 119>> \o W_ab),
      Hdr(0, 1, 0, 0) \o RR(W_ssh, DNS_TYPE_SRV, <<0, 0, 0, 0, 0, 22>> \o W_ab),
      Hdr(0, 1, 0, 0) \o RR(W_IPP, DNS_TYPE_SRV, <<0, 0, 0, 0, 2, 119>> \o W_local),
      Hdr(0, 2, 0, 0) \o RR(W_svc, DNS_TYPE_PTR, L_a \o Ptr(12))
                      \o RR(L_ssh \o Ptr(17), DNS_TYPE_PTR, L_b \o Ptr(43)),
      Hdr(1, 1, 0, 1) \o Q(W_ipp, DNS_TYPE_ANY)
                      \o RR(Ptr(12), DNS_TYPE_TXT, <<3, 120, 61, 49>>)
                      \o RR(Ptr(12), DNS_TYPE_NSEC, Ptr(12) \o <<0, 1, 64>>),
      Hdr(0, 2, 0, 0) \o RR(W_ssh, DNS_TYPE_SVCB, <<0, 1, 0>>)
                      \o RR(Ptr(12), DNS_TYPE_HTTPS, <<0, 1, 0>>),
      Hdr(0, 2, 0, 0) \o RR(W_ab, DNS_TYPE_A, <<10, 0, 0, 1>>)
                      \o RR(Ptr(12), DNS_TYPE_MX, <<0, 10>> \o Ptr(12)),
      Hdr(2, 0, 0, 0) \o Q(W_ssh, DNS_TYPE_SRV) \o Q(W_svc, DNS_TYPE_PTR),
      Hdr(2, 0, 0, 0) \o Q(W_ssh, DNS_TYPE_HTTPS) \o Q(W_ipp, DNS_TYPE_TXT),
      Hdr(1, 0, 0, 0) \o Q(W_ab, DNS_TYPE_MX),
      Hdr(0, 1, 1, 1) \o RR(W_ssh, DNS_TYPE_HINFO, <<1, 120, 1, 121>>)
                      \o RR(W_ab, DNS_TYPE_CNAME, W_ipp)
                      \o RR(W_ab, DNS_TYPE_AAAA, <<254, 128, 0, 0, 0, 0, 0, 0,
                                                   0, 0, 0, 0, 0, 0, 0, 1>>),
      Hdr(0, 1, 0, 1) \o RR(W_ab, DNS_TYPE_DNAME, W_ssh)
                      \o RR(<<0>>, DNS_TYPE_OPT, <<0, 4, 0, 0>>),
      Hdr(0, 2, 0, 0) \o RR(W_ipp, DNS_TYPE_TXT, <<3, 120, 61, 49>>)
                      \o RR(W_ipp, DNS_TYPE_TXT, <<3, 121, 61, 50>>) }

\* datagrams whose length or whose RDATA lengths do not fit what they hold
LenData ==
    { Hdr(0, 1, 0, 0) \o RR(W_ab, DNS_TYPE_A, <<10, 0, 0, 1>>),
      Hdr(0, 1, 0, 0) \o RR(W_ab, DNS_TYPE_A, <<10, 0, 0, 1>>) \o <<0>>,
      Hdr(0, 2, 0, 0) \o RR(W_ab, DNS_TYPE_A, <<10, 0, 0, 1>>),
      Hdr(1, 1, 0, 0) \o Q(W_ab, DNS_TYPE_A),
      Hdr(1, 0, 0, 0) \o Q(W_ab, DNS_TYPE_A) \o RR(Ptr(12), DNS_TYPE_A, <<10, 0, 0, 1>>),
      Hdr(0, 1, 0, 0) \o RR(W_svc, DNS_TYPE_PTR, L_a \o Ptr(12)),
      Hdr(0, 1, 0, 0) \o RRL(W_svc, DNS_TYPE_PTR, 6, L_a \o Ptr(12) \o <<0, 0>>),
      Hdr(0, 1, 0, 0) \o RRL(W_svc, DNS_TYPE_PTR, 3, L_a \o Ptr(12)),
      Hdr(0, 1, 0, 0) \o RR(W_ab, DNS_TYPE_CNAME, W_local),
      Hdr(0, 1, 0, 0) \o RR(W_ab, DNS_TYPE_DNAME, W_local \o <<0>>),
      Hdr(0, 1, 0, 0) \o RR(W_ab, DNS_TYPE_SRV, <<0, 0, 0, 0, 0, 80>> \o Ptr(12) \o <<0>>),
      Hdr(0, 2, 0, 0) \o RR(W_ssh, DNS_TYPE_SRV, <<0, 0, 0, 0, 0, 22>> \o Ptr(12) \o <<0>>)
                      \o RR(W_ab, DNS_TYPE_A, <<10, 0, 0, 1>>),
      Hdr(0, 1, 0, 0) \o RRL(W_ab, DNS_TYPE_A, 0, <<>>),
      Hdr(0, 1, 0, 0) \o RRL(W_ab, DNS_TYPE_TXT, 9, <<3, 120, 61, 49>>),
      Hdr(0, 2, 0, 0) \o RR(W_ab, DNS_TYPE_A, <<10, 0, 0, 1>>)
                      \o RRL(Ptr(12), DNS_TYPE_MX, 0, <<>>) }

\* a label of n bytes, and n labels of one byte
Label(n) == <<n>> \o AsSeq([k \in 1..n |-> 97])

Labels(n) == AsSeq([k \in 1..(2 * n) |-> IF k % 2 = 1 THEN 1 ELSE 97])

\* n queries for the root name, n records owned by it
Queries(n) == AsSeq([k \in 1..(5 * n) |-> Q(<<0>>, DNS_TYPE_A)[((k - 1) % 5) + 1]])

Answers(n) ==
    AsSeq([k \in 1..(15 * n) |->
              RR(<<0>>, DNS_TYPE_A, <<10, 0, 0, 1>>)[((k - 1) % 15) + 1]])

\* datagrams at the limits: label lengths, name lengths, label counts,
\* numbers of queries and records
BigData ==
    { Hdr(0, 1, 0, 0) \o RR(Label(63) \o <<0>>, DNS_TYPE_A, <<10, 0, 0, 1>>),
      Hdr(0, 1, 0, 0) \o RR(Label(64) \o <<0>>, DNS_TYPE_A, <<10, 0, 0, 1>>),
      Hdr(0, 1, 0, 0) \o RR(Label(128) \o <<0>>, DNS_TYPE_A, <<10, 0, 0, 1>>),
      Hdr(0, 1, 0, 0) \o RR(Label(63) \o Label(63) \o Label(63) \o Label(62) \o <<0>>,
                            DNS_TYPE_A, <<10, 0, 0, 1>>),
      Hdr(0, 1, 0, 0) \o RR(Label(63) \o Label(63) \o Label(63) \o Label(63) \o <<0>>,
                            DNS_TYPE_A, <<10, 0, 0, 1>>),
      Hdr(0, 1, 0, 0) \o RR(Labels(126) \o <<0>>, DNS_TYPE_A, <<10, 0, 0, 1>>),
      Hdr(0, 1, 0, 0) \o RR(Labels(127) \o <<0>>, DNS_TYPE_A, <<10, 0, 0, 1>>),
      Hdr(0, 2, 0, 0) \o RR(Label(63) \o Label(63) \o Label(63) \o <<0>>,
                            DNS_TYPE_A, <<10, 0, 0, 1>>)
                      \o RR(Label(62) \o Ptr(12), DNS_TYPE_A, <<10, 0, 0, 1>>),
      Hdr(0, 2, 0, 0) \o RR(Label(63) \o Label(63) \o Label(63) \o <<0>>,
                            DNS_TYPE_A, <<10, 0, 0, 1>>)
                      \o RR(Label(63) \o Ptr(12), DNS_TYPE_A, <<10, 0, 0, 1>>),
      Hdr(0, 2, 0, 0) \o RR(Labels(100) \o <<0>>, DNS_TYPE_A, <<10, 0, 0, 1>>)
                      \o RR(Labels(27) \o Ptr(12), DNS_TYPE_A, <<10, 0, 0, 1>>),
      Hdr(MAX_QUERY_COUNT + 1, 0, 0, 0) \o Queries(1),
      Hdr(MAX_QUERY_COUNT, 0, 0, 0) \o Queries(1),
      Hdr(0, 250, 250, 250) \o Answers(1),
      Hdr(INITIAL_QUERY_COUNT + 1, 0, 0, 0) \o Queries(INITIAL_QUERY_COUNT + 1),
      Hdr(0, 17, 17, 17) \o Answers(INITIAL_RESOURCE_COUNT + 1) }

\* a datagram that is forwarded, two the decoder rejects, one of which the
\* lists may leave nothing
ErrData ==
    { Hdr(0, 1, 0, 0) \o RR(W_ab, DNS_TYPE_A, <<10, 0, 0, 1>>),
      Hdr(0, 1, 0, 0) \o RR(W_ab, DNS_TYPE_PTR, Ptr(5)),
      Hdr(0, 1, 0, 0) \o RR(W_ab, DNS_TYPE_A, <<10, 0, 0, 1>>) \o <<0>>,
      Hdr(0, 1, 0, 0) \o RR(W_ssh, DNS_TYPE_SRV, <<0, 0, 0, 0, 0, 22>> \o W_ab) }

\* n labels of the one byte c, and a record for the address 10.0.0.1 owned
\* by a name of such labels
LabelsOf(n, c) == AsSeq([k \in 1..(2 * n) |-> IF k % 2 = 1 THEN 1 ELSE c])

Host(n, c) == RR(LabelsOf(n, c) \o <<0>>, DNS_TYPE_A, <<10, 0, 0, 1>>)

\* datagrams that make the worker grow its lists: names whose labels fill
\* the compression list (the last name is an owner name, an RDATA name, or
\* a short name that finds the list full), more queries and more records
\* than the lists hold at startup, and one that needs no memory
OomData ==
    { Hdr(0, 4, 0, 0) \o Host(31, 99) \o Host(31, 100) \o Host(31, 101) \o Host(31, 102),
      Hdr(0, 4, 0, 0) \o Host(31, 99) \o Host(31, 100) \o Host(31, 101)
                      \o RR(<<0>>, DNS_TYPE_PTR, LabelsOf(31, 102) \o <<0>>),
      Hdr(0, 5, 0, 0) \o Host(31, 99) \o Host(31, 100) \o Host(31, 101) \o Host(23, 102)
                      \o RR(<<1, 120, 1, 103, 0>>, DNS_TYPE_A, <<10, 0, 0, 1>>),
      Hdr(INITIAL_QUERY_COUNT + 1, 0, 0, 0) \o Queries(INITIAL_QUERY_COUNT + 1),
      Hdr(0, 17, 17, 17) \o Answers(INITIAL_RESOURCE_COUNT + 1),
      Hdr(0, 1, 0, 0) \o RR(W_ab, DNS_TYPE_A, <<10, 0, 0, 1>>) }

\* datagrams that fill the receive buffer, or all but one byte of it: a TXT
\* record owned by the root name whose data begin with the bytes of a name,
\* zeros behind them, and an address record whose owner name is a pointer to
\* those bytes
CapDatagram(bytes, name) ==
    Hdr(0, 2, 0, 0)
    \o RR(<<0>>, DNS_TYPE_TXT,
          name \o Zeros(bytes - SIZEOF_DNS_HEADER - 2 * SIZEOF_RR_HEADER - 7 - Len(name)))
    \o RR(Ptr(SIZEOF_DNS_HEADER + 1 + SIZEOF_RR_HEADER), DNS_TYPE_A, <<10, 0, 0, 1>>)

CapData ==
    { CapDatagram(bytes, name) :
        bytes \in {MDNS_MAX_PACKET_SIZE - 1, MDNS_MAX_PACKET_SIZE},
        name \in {<<0>>, L_a \o <<0>>, W_ab, W_ipp, W_local} }

\* the storage start_bridges creates for the worker of a family and hands
\* to its thread: every family has its own
thread_storage_shared(ip_type) == IPV4

thread_storage(ip_type) == ip_type

\* the interfaces that are enabled for a family, in the order of the
\* configured list: ip_interface_list[ip_type]
FamilyList(s, ip_type) ==
    IF s = "two" /\ ip_type = IPV6 THEN <<1, 3>>
    ELSE AsSeq([index \in 1..NumInterfaces |-> index])

\* interface->sock[ip_type]: the sockets of the first family come first
sock(ip_type, index) == ip_type * NumInterfaces + index

\* what the interfaces hold for one family, interface->peer_list[ip_type]
\* and the counts beside it: a record per socket, the peers referenced by
\* their sockets of the same family
family_sockets(s, ifs, ip_type) ==
    AsSeq([index \in 1..Len(ifs) |->
        IF \E k \in 1..Len(FamilyList(s, ip_type)) : FamilyList(s, ip_type)[k] = index
        THEN [build_interface_peer_lists(
                  AsSeq([k \in 1..Len(FamilyList(s, ip_type)) |->
                            ifs[FamilyList(s, ip_type)[k]]]))
                [CHOOSE k \in 1..Len(FamilyList(s, ip_type)) :
                     FamilyList(s, ip_type)[k] = index]
              EXCEPT !.peer_list =
                  AsSeq([p \in 1..Len(@) |-> sock(ip_type, FamilyList(s, ip_type)[@[p]])])]
        ELSE ifs[index]])

\* the interfaces as set_ip_interface_lists leaves them
set_ip_interface_lists_done(s, ifs) ==
    IF s = "two"
    THEN family_sockets(s, ifs, IPV4) \o family_sockets(s, ifs, IPV6)
    ELSE build_interface_peer_lists(ifs)

\* a worker that waits for an event
Worker ==
    [pc |-> "wait", local_storage |-> local_storage_create, interface |-> 0,
     data |-> <<>>, sent |-> <<>>, expect |-> <<>>, events |-> 0,
     ret |-> 0, encs |-> <<>>]

\* bridge_thread before its loop: the events array is as calloc returns it,
\* no entry read, no receive called
bridge_thread_start ==
    [pc |-> "wait", events |-> AsSeq([k \in 1..NumInterfaces |-> NULL]),
     num_events |-> 0, index |-> 0, reads |-> <<>>, calls |-> <<>>]

\* the workers start_bridges has started
Workers(s) ==
    IF s = "two" THEN [ip_type \in IpTypes |-> Worker]
    ELSE IF s = "wait" THEN <<bridge_thread_start>>
    ELSE <<>>

\* the sockets that fail
Downs(s) == IF s = "err" THEN {{}, {2}, {3}, {2, 3}} ELSE {{}}

\* the realloc calls that succeed before the first one fails (none fails
\* when negative)
Reallocs(s) == IF s = "oom" THEN {-1, 0, 1} ELSE {-1}

Configs(s) ==
    CASE s = "ptr" -> { Config(TRUE, NULL, NULL, NULL, NULL),
                        Config(TRUE, NULL, NULL, 2, NULL) }
      [] s = "type" -> { Config(TRUE, NULL, NULL, 2, NULL),
                         Config(TRUE, NULL, NULL, 1, NULL),
                         Config(TRUE, 1, 4, NULL, NULL),
                         Config(TRUE, 2, NULL, 1, 3),
                         Config(TRUE, NULL, 2, 1, 2),
                         Config(FALSE, NULL, NULL, NULL, NULL) }
      [] s = "name" -> { Config(FALSE, NULL, NULL, NULL, NULL) }
      [] s = "raw" -> { Config(FALSE, NULL, NULL, NULL, NULL) }
      [] s = "big" -> { Config(TRUE, NULL, NULL, NULL, NULL) }
      [] s = "oom" -> { Config(TRUE, NULL, NULL, 2, NULL),
                        Config(TRUE, 2, NULL, NULL, NULL) }
      [] s = "err" -> { Config(TRUE, NULL, NULL, 2, NULL),
                        Config(TRUE, NULL, NULL, NULL, NULL),
                        Config(TRUE, 2, NULL, 1, 3) }
      [] s = "two" -> { Config(TRUE, NULL, NULL, 2, NULL),
                        Config(FALSE, NULL, NULL, NULL, NULL),
                        Config(TRUE, 2, NULL, 1, 3) }
      [] s = "len" -> { Config(TRUE, NULL, NULL, NULL, NULL),
                        Config(TRUE, 3, NULL, 2, NULL) }
      [] s = "cap" -> { Config(TRUE, NULL, NULL, 2, NULL),
                        Config(TRUE, 2, NULL, NULL, NULL) }
      [] s = "wait" -> { Config(TRUE, NULL, NULL, 2, NULL),
                         Config(FALSE, NULL, NULL, NULL, NULL) }

\* the command line: flag_warn is 0 unless -w is given
parse_args(s) == IF s = "type" THEN {0, 1} ELSE {0}

Events(s) ==
    CASE s = "ptr" -> { [interface |-> 1, data |-> d] : d \in PtrData }
      [] s = "type" -> { [interface |-> 1, data |-> d] : d \in TypeData }
      [] s = "name" -> {}
      [] s = "raw" -> { [interface |-> i, data |-> d] : i \in {1, 2}, d \in PtrData }
      [] s = "len" -> { [interface |-> 1, data |-> d] : d \in LenData }
      [] s = "big" -> { [interface |-> 1, data |-> d] : d \in BigData }
      [] s = "oom" -> { [interface |-> 1, data |-> d] : d \in OomData }
      [] s = "err" -> { [interface |-> 1, data |-> d] : d \in ErrData }
      [] s = "two" -> { [interface |-> i, data |-> d] : i \in {1, 2}, d \in ErrData }
      [] s = "cap" -> { [interface |-> 1, data |-> d] : d \in CapData }
      [] s = "wait" -> { [interface |-> i, data |-> d] : i \in 1..NumInterfaces, d \in ErrData }

\* the decoded names dns_encode_name is given: the decoder's reading of
\* names on the wire
WireNames ==
    { <<0>>, W_local, W_ab, W_ipp, W_ssh, W_svc,
      L_b \o L_a \o L_b \o <<0>>, L_b \o L_udp \o L_local \o <<0>>,
      L_a \o L_local \o <<0>> }

NamePool ==
    { dns_decode_name([bytes |-> Len(w), buffer |-> w], 0, ZeroName).name : w \in WireNames }

----------------------------------------------------------------------------
(* filter.c: filter lists as read_config builds them.  A filter string is  *)
(* the sequence of its character codes; a filter list lives in a heap and  *)
(* is referenced by its place there.                                       *)

DNS_MAX_LABEL_LEN == 64

DOT == 46

RECURSIVE strcmp(_, _)
strcmp(s1, s2) ==
    IF s1 = <<>> /\ s2 = <<>> THEN 0
    ELSE IF s1 = <<>> THEN 0 - Head(s2)
    ELSE IF s2 = <<>> THEN Head(s1)
    ELSE IF Head(s1) # Head(s2) THEN Head(s1) - Head(s2)
    ELSE strcmp(Tail(s1), Tail(s2))

\* the array with s put behind the elements that compare below it
sort_insert(sorted, s) ==
    SubSeq(sorted, 1, Cardinality({ i \in 1..Len(sorted) : strcmp(sorted[i], s) < 0 }))
    \o <<s>>
    \o SubSeq(sorted, Cardinality({ i \in 1..Len(sorted) : strcmp(sorted[i], s) < 0 }) + 1,
              Len(sorted))

RECURSIVE qsort(_)
qsort(list) ==
    IF list = <<>> THEN <<>> ELSE sort_insert(qsort(Tail(list)), Head(list))

\* memmove(list + index, list + index + 1, ...): the last slot keeps its value
list_memmove(list, index, count) ==
    SubSeq(list, 1, index) \o SubSeq(list, index + 2, count) \o SubSeq(list, count, Len(list))

\* the loop that removes duplicates; index as in the code, from 0
RECURSIVE remove_duplicates(_, _, _)
remove_duplicates(list, index, count) ==
    IF index >= count THEN SubSeq(list, 1, count)
    ELSE IF strcmp(list[index], list[index + 1]) = 0
    THEN IF index < count - 1
         THEN remove_duplicates(list_memmove(list, index, count), index, count - 1)
         ELSE remove_duplicates(list, index + 1, count - 1)
    ELSE remove_duplicates(list, index + 1, count)

\* strcspn(string + string_offset, ".")
RECURSIVE strcspn_dot(_, _)
strcspn_dot(string, string_offset) ==
    IF string_offset >= Len(string) \/ string[string_offset + 1] = DOT THEN 0
    ELSE 1 + strcspn_dot(string, string_offset + 1)

\* the loop of dns_save_match_name: the labels written, or fatal
RECURSIVE save_labels(_, _, _, _)
save_labels(string, string_offset, labels, label_count) ==
    IF string_offset >= Len(string) THEN [fatal |-> FALSE, labels |-> labels]
    ELSE IF strcspn_dot(string, string_offset) = 0
            \/ strcspn_dot(string, string_offset) > DNS_MAX_LABEL_LEN
            \/ label_count + 1 > MAX_NUM_LABELS
    THEN [fatal |-> TRUE, labels |-> labels]
    ELSE save_labels(string,
                     string_offset + strcspn_dot(string, string_offset) + 1,
                     labels \o <<strcspn_dot(string, string_offset)>>
                            \o SubSeq(string, string_offset + 1,
                                      string_offset + strcspn_dot(string, string_offset)),
                     label_count + 1)

\* the bytes of the allocation the loop did not write hold what malloc left
match_name(saved, name_len, junk) ==
    [fatal |-> saved.fatal, length |-> name_len,
     labels |-> saved.labels
                \o AsSeq([k \in 1..(name_len - Len(saved.labels)) |-> junk])]

dns_save_match_name(string, junk) ==
    IF Len(string) < 1 \/ Len(string) >= DNS_MAX_NAME_LEN
    THEN [fatal |-> TRUE, length |-> 0, labels |-> <<>>]
    ELSE match_name(save_labels(string, 0, <<>>, 0), Len(string) + 1, junk)

\* the names of the sorted array without duplicates
filter_names(list, junk) ==
    AsSeq([index \in 1..Len(list) |-> dns_save_match_name(list[index], junk)])

filter_list_create(allow_deny, list, junk) ==
    [allow_deny |-> allow_deny,
     count |-> Len(remove_duplicates(qsort(list), 1, Len(list))),
     names |-> filter_names(remove_duplicates(qsort(list), 1, Len(list)), junk)]

\* dns_save_match_name called fatal for one of the names
filter_list_fatal(filter_list) ==
    \E index \in 1..filter_list.count : filter_list.names[index].fatal

\* 0 when the lists are equal
filter_list_compare(l1, l2) ==
    IF l1.allow_deny # l2.allow_deny \/ l1.count # l2.count THEN 1
    ELSE IF \E index \in 1..l1.count :
               \/ l1.names[index].length # l2.names[index].length
               \/ l1.names[index].labels # l2.names[index].labels
    THEN 1
    ELSE 0

----------------------------------------------------------------------------
(* config.c: read_config, one line at a time; then os_validate_interfaces, *)
(* set_ip_interface_lists and start_bridges as main calls them.  An        *)
(* interface is referenced by its place in configured_interface_list.      *)

KEY_INTERFACES == "interfaces"
KEY_DISABLE_PACKET_FILTERING == "disable-packet-filtering"
KEY_DISABLE_IPV4 == "disable-ipv4"
KEY_DISABLE_IPV6 == "disable-ipv6"
KEY_ALLOW_INBOUND_FILTERS == "allow-inbound-filters"
KEY_DENY_INBOUND_FILTERS == "deny-inbound-filters"
KEY_ALLOW_OUTBOUND_FILTERS == "allow-outbound-filters"
KEY_DENY_OUTBOUND_FILTERS == "deny-outbound-filters"

InboundKeys == {KEY_ALLOW_INBOUND_FILTERS, KEY_DENY_INBOUND_FILTERS}
OutboundKeys == {KEY_ALLOW_OUTBOUND_FILTERS, KEY_DENY_OUTBOUND_FILTERS}

\* the mode a filter key stands for
KeyMode(key) ==
    IF key \in {KEY_ALLOW_INBOUND_FILTERS, KEY_ALLOW_OUTBOUND_FILTERS} THEN ALLOW ELSE DENY

\* the family a disable key stands for
KeyIpType(key) == IF key = KEY_DISABLE_IPV4 THEN IPV4 ELSE IPV6

ConfiguredInterface ==
    [inbound_filter_list |-> NULL, outbound_filter_list |-> NULL,
     disable_ip |-> [t \in IpTypes |-> 0],
     peers |-> [t \in IpTypes |-> ZeroInterface],
     inbound_lines |-> 0, outbound_line |-> <<>>]

\* the globals of filter.c, interface.c and config.c before read_config
ConfigStart ==
    [phase |-> "global", message |-> "", lines |-> 0,
     filtering_enabled |-> 1, global_filter_list |-> NULL,
     unique_outbound_filter_count |-> 0, heap |-> <<>>,
     configured_interface_list |-> <<>>, interface |-> 0,
     global_disable |-> [t \in IpTypes |-> 0],
     ip_interface_count |-> [t \in IpTypes |-> 0],
     ip_interface_list |-> [t \in IpTypes |-> <<>>],
     threads |-> {}]

\* the configuration is over: the state of a process whose workers run
ConfigDone == [phase |-> "running"]

\* the process exits with the message
fatal(c, message) == [ConfigStart EXCEPT !.phase = "fatal", !.message = message]

set_interface_list(c, count) ==
    IF c.configured_interface_list # <<>>
    THEN fatal(c, "Only one interface list is allowed")
    ELSE [c EXCEPT !.configured_interface_list =
                        AsSeq([index \in 1..count |-> ConfiguredInterface])]

set_global_filter_list(c, allow_deny, list, junk) ==
    IF c.global_filter_list # NULL
    THEN fatal(c, "Only one global filter list is allowed")
    ELSE IF filter_list_fatal(filter_list_create(allow_deny, list, junk))
    THEN fatal(c, "Invalid DNS name")
    ELSE [c EXCEPT !.heap = Append(@, filter_list_create(allow_deny, list, junk)),
                   !.global_filter_list = Len(c.heap) + 1]

\* the interfaces whose list of the given direction equals filter_list
SameInbound(c, filter_list) ==
    { index \in 1..Len(c.configured_interface_list) :
        /\ c.configured_interface_list[index].inbound_filter_list # NULL
        /\ filter_list_compare(
               c.heap[c.configured_interface_list[index].inbound_filter_list],
               filter_list) = 0 }

SameOutbound(c, filter_list) ==
    { index \in 1..Len(c.configured_interface_list) :
        /\ c.configured_interface_list[index].outbound_filter_list # NULL
        /\ filter_list_compare(
               c.heap[c.configured_interface_list[index].outbound_filter_list],
               filter_list) = 0 }

\* the first element of a set of indexes
First(S) == CHOOSE index \in S : \A other \in S : index <= other

inbound_assign(c, filter_list) ==
    IF c.global_filter_list # NULL
       /\ filter_list_compare(c.heap[c.global_filter_list], filter_list) = 0
    THEN c
    ELSE IF SameInbound(c, filter_list) # {}
    THEN [c EXCEPT !.configured_interface_list[c.interface].inbound_filter_list =
              c.configured_interface_list[First(SameInbound(c, filter_list))]
                  .inbound_filter_list]
    ELSE [c EXCEPT !.heap = Append(@, filter_list),
                   !.configured_interface_list[c.interface].inbound_filter_list =
                       Len(c.heap) + 1]

set_interface_inbound_filter_list(c, allow_deny, list, junk) ==
    IF c.configured_interface_list[c.interface].inbound_filter_list # NULL
    THEN fatal(c, "Only one inbound filter list per interface is allowed")
    ELSE IF filter_list_fatal(filter_list_create(allow_deny, list, junk))
    THEN fatal(c, "Invalid DNS name")
    ELSE inbound_assign(c, filter_list_create(allow_deny, list, junk))

outbound_assign(c, filter_list) ==
    IF SameOutbound(c, filter_list) # {}
    THEN [c EXCEPT !.configured_interface_list[c.interface].outbound_filter_list =
              c.configured_interface_list[First(SameOutbound(c, filter_list))]
                  .outbound_filter_list,
                   !.unique_outbound_filter_count = @ + 1]
    ELSE [c EXCEPT !.heap = Append(@, filter_list),
                   !.configured_interface_list[c.interface].outbound_filter_list =
                       Len(c.heap) + 1,
                   !.unique_outbound_filter_count = @ + 1]

set_interface_outbound_filter_list(c, allow_deny, list, junk) ==
    IF c.configured_interface_list[c.interface].outbound_filter_list # NULL
    THEN fatal(c, "Only one outbound filter list per interface is allowed")
    ELSE IF filter_list_fatal(filter_list_create(allow_deny, list, junk))
    THEN fatal(c, "Invalid DNS name")
    ELSE outbound_assign(c, filter_list_create(allow_deny, list, junk))

\* the test that is never made
filtering_never_disabled(c) == FALSE

\* if (filtering_enabled == 0) in front of every filter key
filtering_disabled(c) == c.filtering_enabled = 0

\* a line of the global section
global_line(c, d) ==
    IF d.key = KEY_INTERFACES
    THEN IF d.count < 2 THEN fatal(c, "A minimum of 2 interfaces are required")
         ELSE set_interface_list(c, d.count)
    ELSE IF d.key \in {KEY_DISABLE_IPV4, KEY_DISABLE_IPV6}
    THEN [c EXCEPT !.global_disable[KeyIpType(d.key)] = IF d.value = "yes" THEN 1 ELSE 0]
    ELSE IF d.key = KEY_DISABLE_PACKET_FILTERING
    THEN IF d.value = "yes"
         THEN IF c.global_filter_list # NULL
              THEN fatal(c, "disable-packet-filtering cannot be combined with filters")
              ELSE [c EXCEPT !.filtering_enabled = 0]
         ELSE [c EXCEPT !.filtering_enabled = 1]
    ELSE IF d.key \in InboundKeys
    THEN IF filtering_disabled(c)
         THEN fatal(c, "filters cannot be combined with disable-packet-filtering")
         ELSE set_global_filter_list(c, KeyMode(d.key), d.list, d.junk)
    ELSE fatal(c, "Unknown [global] parameter")

\* the note of a filter line the interface section took
inbound_noted(c, after) ==
    IF after.phase = "fatal" THEN after
    ELSE [after EXCEPT !.configured_interface_list[c.interface].inbound_lines = @ + 1]

outbound_noted(c, d, after) ==
    IF after.phase = "fatal" THEN after
    ELSE [after EXCEPT !.configured_interface_list[c.interface].outbound_line =
              <<[allow_deny |-> KeyMode(d.key),
                 strings |-> { d.list[k] : k \in 1..Len(d.list) }]>>]

\* a line of an interface section
interface_line(c, d) ==
    IF d.key \in {KEY_DISABLE_IPV4, KEY_DISABLE_IPV6}
    THEN IF d.value = "yes"
         THEN [c EXCEPT !.configured_interface_list[c.interface]
                             .disable_ip[KeyIpType(d.key)] = 1]
         ELSE IF c.global_disable[KeyIpType(d.key)] = 1
         THEN fatal(c, "globally disabled")
         ELSE [c EXCEPT !.configured_interface_list[c.interface]
                             .disable_ip[KeyIpType(d.key)] = 0]
    ELSE IF d.key \in InboundKeys
    THEN IF filtering_disabled(c)
         THEN fatal(c, "filters cannot be combined with disable-packet-filtering")
         ELSE inbound_noted(c,
                  set_interface_inbound_filter_list(c, KeyMode(d.key), d.list, d.junk))
    ELSE IF d.key \in OutboundKeys
    THEN IF filtering_disabled(c)
         THEN fatal(c, "filters cannot be combined with disable-packet-filtering")
         ELSE outbound_noted(c, d,
                  set_interface_outbound_filter_list(c, KeyMode(d.key), d.list, d.junk))
    ELSE fatal(c, "Unknown interface parameter")

\* the end of the global section: the interface list is there, the global
\* settings reach the interfaces
global_end(c) ==
    IF c.configured_interface_list = <<>>
    THEN fatal(c, "[global] section missing required parameter")
    ELSE [c EXCEPT !.configured_interface_list =
             [index \in 1..Len(@) |->
                 [@[index] EXCEPT !.disable_ip =
                     [t \in IpTypes |-> IF c.global_disable[t] = 1 THEN 1 ELSE @[t]]]]]

\* a section header for the interface of that place, 0 for an unknown name
section_open(c, index) ==
    IF c.phase = "fatal" THEN c
    ELSE IF index = 0 \/ index > Len(c.configured_interface_list)
    THEN fatal(c, "Interface is not in the [global] interfaces list")
    ELSE [c EXCEPT !.phase = "section", !.interface = index]

section_line(c, index) ==
    IF c.phase = "global" THEN section_open(global_end(c), index)
    ELSE section_open(c, index)

\* the end of the file
end_of_file(c) ==
    IF c.phase = "global"
    THEN IF global_end(c).phase = "fatal" THEN global_end(c)
         ELSE [global_end(c) EXCEPT !.phase = "configured"]
    ELSE [c EXCEPT !.phase = "configured"]

\* os.c: os_validate_interfaces.  addrs[index][t] says whether the system
\* interface has an address of family t.
validate_interface(c, index, t, addrs) ==
    IF addrs[index][t] /\ c.configured_interface_list[index].disable_ip[t] = 0
    THEN [c EXCEPT !.ip_interface_count[t] = @ + 1]
    ELSE [c EXCEPT !.configured_interface_list[index].disable_ip[t] = 1]

RECURSIVE validate_interfaces(_, _, _)
validate_interfaces(c, index, addrs) ==
    IF index > Len(c.configured_interface_list) THEN c
    ELSE validate_interfaces(
             validate_interface(validate_interface(c, index, IPV4, addrs),
                                index, IPV6, addrs),
             index + 1, addrs)

os_validate_interfaces(c, addrs) ==
    [validate_interfaces(c, 1, addrs) EXCEPT !.phase = "validated"]

\* the places of the interfaces the family is not disabled for, in order
EnabledInterfaces(c, t) ==
    SelectSeq(AsSeq([index \in 1..Len(c.configured_interface_list) |-> index]),
              LAMBDA index : c.configured_interface_list[index].disable_ip[t] = 0)

\* the one interface that is left stays as it is
disable_none(c, t) == c

\* the one interface that is left has no peer: it is disabled
disable_first(c, t) ==
    IF EnabledInterfaces(c, t) = <<>> THEN c
    ELSE [c EXCEPT !.configured_interface_list[Head(EnabledInterfaces(c, t))]
                        .disable_ip[t] = 1]

build_interface_list(c, t) ==
    IF c.ip_interface_count[t] > 1 /\ Len(EnabledInterfaces(c, t)) >= 2
    THEN [c EXCEPT !.ip_interface_list[t] = EnabledInterfaces(c, t),
                   !.ip_interface_count[t] = Len(EnabledInterfaces(c, t))]
    ELSE [disable_first(c, t) EXCEPT
             !.ip_interface_list[t] =
                 IF c.ip_interface_count[t] > 1 THEN EnabledInterfaces(c, t) ELSE <<>>,
             !.ip_interface_count[t] = 0]

\* the interfaces of a family as build_interface_peer_lists sees them
FamilyInterfaces(c, t) ==
    AsSeq([k \in 1..c.ip_interface_count[t] |->
        [ZeroInterface EXCEPT
            !.inbound_filter_list =
                c.configured_interface_list[c.ip_interface_list[t][k]].inbound_filter_list,
            !.outbound_filter_list =
                c.configured_interface_list[c.ip_interface_list[t][k]]
                    .outbound_filter_list]])

\* the peers of the k-th interface of the family, by their places in
\* configured_interface_list
family_peers(c, t, built, k) ==
    [built[k] EXCEPT !.peer_list =
        AsSeq([j \in 1..Len(@) |-> c.ip_interface_list[t][@[j]]])]

\* the place of an interface in the list of its family, 0 when not in it
FamilyPlace(c, t, index) ==
    IF \E k \in 1..c.ip_interface_count[t] : c.ip_interface_list[t][k] = index
    THEN CHOOSE k \in 1..c.ip_interface_count[t] : c.ip_interface_list[t][k] = index
    ELSE 0

family_peer_lists(c, t, built) ==
    [c EXCEPT !.configured_interface_list =
        AsSeq([index \in 1..Len(@) |->
            IF FamilyPlace(c, t, index) = 0 THEN @[index]
            ELSE [@[index] EXCEPT
                     !.peers[t] = family_peers(c, t, built, FamilyPlace(c, t, index))]])]

build_family_peer_lists(c, t) ==
    family_peer_lists(c, t, build_interface_peer_lists(FamilyInterfaces(c, t)))

build_lists(c) ==
    IF c.ip_interface_count[IPV6] # 0
    THEN build_interface_list(
             IF c.ip_interface_count[IPV4] # 0 THEN build_interface_list(c, IPV4) ELSE c,
             IPV6)
    ELSE IF c.ip_interface_count[IPV4] # 0 THEN build_interface_list(c, IPV4) ELSE c

build_peers(c) ==
    IF c.ip_interface_count[IPV6] # 0
    THEN build_family_peer_lists(
             IF c.ip_interface_count[IPV4] # 0 THEN build_family_peer_lists(c, IPV4) ELSE c,
             IPV6)
    ELSE IF c.ip_interface_count[IPV4] # 0 THEN build_family_peer_lists(c, IPV4) ELSE c

lists_checked(c) ==
    IF c.ip_interface_count[IPV4] = 0 /\ c.ip_interface_count[IPV6] = 0
    THEN fatal(c, "No active IPv4 or IPv6 interfaces... exiting")
    ELSE [build_peers(c) EXCEPT !.phase = "listed"]

set_ip_interface_lists(c) == lists_checked(build_lists(c))

\* bridge.c: start_bridges: a worker for each family that has interfaces
start_bridges(c) ==
    [c EXCEPT !.threads = { t \in IpTypes : c.ip_interface_count[t] # 0 },
              !.phase = "started"]

----------------------------------------------------------------------------
(* Configuration files and systems *)

MaxLines == 3

StrA == <<97>>
StrB == <<98>>
StrADot == <<97, DOT>>

\* the values of the filter keys: one set of strings in two orders, with
\* and without a repetition, and a name with a dot at its end
StringLists(key) ==
    IF KeyMode(key) = ALLOW
    THEN { <<StrA>>, <<StrB, StrA>>, <<StrA, StrB, StrA>>, <<StrADot>> }
    ELSE { <<StrB, StrA>> }

\* what malloc may have left in a byte
Junk == {0, 98}

\* a byte is left unwritten when a string ends in a dot
JunkOf(list) ==
    IF \E k \in 1..Len(list) : list[k][Len(list[k])] = DOT THEN Junk ELSE {0}

Line(key, value, count, list, junk) ==
    [key |-> key, value |-> value, count |-> count, list |-> list, junk |-> junk]

FilterLines(keys) ==
    UNION { { Line(key, "", 0, list, junk) : list \in StringLists(key), junk \in Junk } :
              key \in keys }

ConfigLines ==
    { Line(KEY_INTERFACES, "", NumInterfaces, <<>>, 0) }
    \cup { Line(key, value, 0, <<>>, 0) :
             key \in {KEY_DISABLE_IPV4, KEY_DISABLE_PACKET_FILTERING},
             value \in {"yes", "no"} }
    \cup { Line(KEY_DISABLE_IPV6, "yes", 0, <<>>, 0) }
    \cup { d \in FilterLines(InboundKeys \cup OutboundKeys) : d.junk \in JunkOf(d.list) }

\* the address families the interfaces of the system have
OsAddresses ==
    { [index \in 1..NumInterfaces |-> [t \in IpTypes |-> TRUE]],
      [index \in 1..NumInterfaces |-> [t \in IpTypes |-> t = IPV4 \/ index = 1]],
      [index \in 1..NumInterfaces |-> [t \in IpTypes |-> t = IPV6 /\ index = 1]] }

----------------------------------------------------------------------------
(* The worker *)

NoEvent == [interface |-> 0, data |-> <<>>, decoded |-> FALSE, ret |-> 0, g |-> ZeroNote,
            encs |-> <<>>]

\* the worker's storage before the first name of a packet is written:
\* dns_encode_packet has reset the compression list
StartStorage(s) ==
    IF s = "name"
    THEN [local_storage_create EXCEPT !.dns_state = clist_reset(@),
                                      !.send_packet.bytes = SIZEOF_DNS_HEADER]
    ELSE local_storage_create

InitWith(scens) ==
    /\ scen \in scens
    /\ \E c \in Configs(scen) :
          /\ filtering_enabled = c.filtering_enabled
          /\ global_filter_list = c.global_filter_list
          /\ interface_list = set_ip_interface_lists_done(scen, c.interfaces)
    /\ \E r \in Reallocs(scen) :
          local_storage = [StartStorage(scen) EXCEPT !.dns_state.reallocs = r]
    /\ sent = <<>>
    /\ log = <<>>
    /\ ev = NoEvent
    /\ npackets = 0
    /\ written = <<>>
    /\ flag_warn \in parse_args(scen)
    /\ down \in Downs(scen)
    /\ cfg = ConfigDone
    /\ threads = Workers(scen)

\* one readable event: the whole of receive()
Receive(interface, data) ==
    /\ npackets < MaxPackets
    /\ \E r \in {receive(local_storage, interface, data)} :
           /\ local_storage' = r.ls
           /\ sent' = r.sent
           /\ log' = r.log
           /\ ev' = r.ev
    /\ npackets' = npackets + 1
    /\ UNCHANGED <<filtering_enabled, global_filter_list, interface_list, written,
                   flag_warn, down, cfg, threads, scen>>

\* one call of dns_encode_name while a packet is being written: the name
\* goes behind what the send packet holds
EncodeName(name) ==
    /\ Len(written) < MaxNames
    /\ \E n \in {dns_encode_name(local_storage.dns_state, local_storage.send_packet,
                                 local_storage.send_packet.bytes, name)} :
           /\ local_storage' = [local_storage EXCEPT
                                   !.dns_state = n.st,
                                   !.send_packet = [bytes |-> n.ret, buffer |-> n.send.buffer]]
           /\ written' = Append(written,
                                [name |-> name, start |-> local_storage.send_packet.bytes,
                                 end |-> n.ret])
    /\ UNCHANGED <<filtering_enabled, global_filter_list, interface_list, sent, log, ev,
                   npackets, flag_warn, down, cfg, threads, scen>>

\* a wake-up whose recvfrom returns -1: the error is logged, receive returns
ReceiveError(interface) ==
    /\ npackets < MaxPackets
    /\ sent' = <<>>
    /\ log' = <<"recvfrom error">>
    /\ ev' = [NoEvent EXCEPT !.interface = interface]
    /\ npackets' = npackets + 1
    /\ UNCHANGED <<filtering_enabled, global_filter_list, interface_list, local_storage,
                   written, flag_warn, down, cfg, threads, scen>>

Next == \E e \in Events(scen) : Receive(e.interface, e.data)

NextErr ==
    \/ \E e \in Events(scen) : ReceiveError(e.interface)
    \/ \E e \in Events(scen) : Receive(e.interface, e.data)

NextNames == \E name \in NamePool : EncodeName(name)

Init == InitWith({"ptr", "type"})

Spec == Init /\ [][Next]_vars

SpecPtr == InitWith({"ptr"}) /\ [][Next]_vars

SpecType == InitWith({"type"}) /\ [][Next]_vars

SpecNames == InitWith({"name"}) /\ [][NextNames]_vars

SpecRaw == InitWith({"raw"}) /\ [][Next]_vars

SpecLen == InitWith({"len"}) /\ [][Next]_vars

SpecBig == InitWith({"big"}) /\ [][Next]_vars

SpecOom == InitWith({"oom"}) /\ [][Next]_vars

SpecCap == InitWith({"cap"}) /\ [][Next]_vars

\* the loop of bridge_thread never ends: a socket that is readable is read
SpecErr == InitWith({"err"}) /\ [][NextErr]_vars /\ WF_vars(NextErr)

----------------------------------------------------------------------------
(* Two workers.  A wake-up is two steps, so that the steps of the workers   *)
(* interleave: recvfrom fills the receive packet, then the rest of          *)
(* receive() decodes, encodes and sends.                                    *)

\* recvfrom of the worker of a family
Recvfrom(ip_type, interface, data) ==
    /\ threads[ip_type].pc = "wait"
    /\ npackets < MaxPackets
    /\ threads' =
          [[threads EXCEPT
               ![ip_type].pc = "received",
               ![ip_type].interface = interface,
               ![ip_type].data = data,
               ![ip_type].sent = <<>>,
               ![ip_type].expect =
                   receive(threads[thread_storage(ip_type)].local_storage,
                           interface, data).sent]
              EXCEPT ![thread_storage(ip_type)].local_storage = received(@, data)]
    /\ npackets' = npackets + 1
    /\ UNCHANGED <<filtering_enabled, global_filter_list, interface_list, local_storage,
                   sent, log, ev, written, flag_warn, down, cfg, scen>>

\* the rest of receive() for the datagram the worker has read
Forward(ip_type) ==
    /\ threads[ip_type].pc = "received"
    /\ \E r \in {receive_packet(threads[thread_storage(ip_type)].local_storage,
                                 threads[ip_type].interface, threads[ip_type].data)} :
          threads' =
              [[threads EXCEPT
                   ![ip_type].pc = "wait",
                   ![ip_type].sent = r.sent,
                   ![ip_type].ret = r.ev.ret,
                   ![ip_type].encs = r.ev.encs,
                   ![ip_type].events = @ + 1]
                  EXCEPT ![thread_storage(ip_type)].local_storage = r.ls]
    /\ UNCHANGED <<filtering_enabled, global_filter_list, interface_list, local_storage,
                   sent, log, ev, npackets, written, flag_warn, down, cfg, scen>>

NextTwo ==
    \/ \E ip_type \in IpTypes : \E e \in Events(scen) :
           /\ \E k \in 1..Len(FamilyList(scen, ip_type)) :
                 FamilyList(scen, ip_type)[k] = e.interface
           /\ Recvfrom(ip_type, sock(ip_type, e.interface), e.data)
    \/ \E ip_type \in IpTypes : Forward(ip_type)

SpecTwo == InitWith({"two"}) /\ [][NextTwo]_vars

----------------------------------------------------------------------------
(* bridge.c: the loop of bridge_thread.  The worker waits for events, then *)
(* passes over the events array; every turn of the pass is one call of     *)
(* receive().  The epoll and the kqueue build have the same loop.          *)

MaxReads == 4

EINTR == 4

\* errno behind a wait that has failed: EINTR, or an error such as EBADF
WaitErrnos == {EINTR, 9}

\* (unsigned int) n for an int n, as its upper and its lower sixteen bits
UnsignedInt(n) == <<(65536 + (n \div 65536)) % 65536, n % 65536>>

\* a < b for two unsigned ints
UnsignedLess(a, b) == a[1] < b[1] \/ (a[1] = b[1] /\ a[2] < b[2])

\* index < (unsigned int) num_events
loop_condition(w) == UnsignedLess(UnsignedInt(w.index), UnsignedInt(w.num_events))

\* what the wait can report: one interface, or two in either order
ReadyLists ==
    { <<i>> : i \in 1..NumInterfaces }
    \cup { r \in { <<i, j>> : i \in 1..NumInterfaces, j \in 1..NumInterfaces } :
              r[1] # r[2] }

\* the events array with the entries the wait has filled in
events_filled(events, ready) ==
    AsSeq([k \in 1..Len(events) |-> IF k <= Len(ready) THEN ready[k] ELSE events[k]])

\* the wait returns the number of interfaces that are ready
epoll_wait(ready) ==
    /\ threads[1].pc = "wait"
    /\ npackets < MaxPackets
    /\ threads' = [threads EXCEPT ![1] =
                      [@ EXCEPT !.pc = "loop",
                                !.events = events_filled(@, ready),
                                !.num_events = Len(ready),
                                !.index = 0, !.reads = <<>>, !.calls = <<>>]]
    /\ npackets' = npackets + 1
    /\ sent' = <<>>
    /\ log' = <<>>
    /\ UNCHANGED <<filtering_enabled, global_filter_list, interface_list, local_storage,
                   ev, written, flag_warn, down, cfg, scen>>

\* the wait returns -1: the events array is left as it was, the error is
\* logged unless it is EINTR
epoll_wait_fails(errno) ==
    /\ threads[1].pc = "wait"
    /\ npackets < MaxPackets
    /\ threads' = [threads EXCEPT ![1] =
                      [@ EXCEPT !.pc = "loop", !.num_events = -1,
                                !.index = 0, !.reads = <<>>, !.calls = <<>>]]
    /\ npackets' = npackets + 1
    /\ sent' = <<>>
    /\ log' = IF errno # EINTR THEN <<"epoll_wait">> ELSE <<>>
    /\ UNCHANGED <<filtering_enabled, global_filter_list, interface_list, local_storage,
                   ev, written, flag_warn, down, cfg, scen>>

\* the loop condition holds and the entry at index is one the wait has
\* filled in, now or at an earlier wake-up
turn_enabled ==
    /\ threads[1].pc = "loop"
    /\ loop_condition(threads[1])
    /\ threads[1].index < Len(threads[1].events)
    /\ threads[1].events[threads[1].index + 1] # NULL

\* the entry at index is read and receive is called with it
turn_taken ==
    [threads EXCEPT ![1] =
        [@ EXCEPT !.index = @ + 1,
                  !.reads = Append(@, threads[1].index),
                  !.calls = Append(@, threads[1].events[threads[1].index + 1])]]

\* a turn of the loop: receive() reads a datagram from the socket
loop_receive(data) ==
    /\ turn_enabled
    /\ \E r \in {receive(local_storage, threads[1].events[threads[1].index + 1], data)} :
           /\ local_storage' = r.ls
           /\ sent' = r.sent
           /\ log' = r.log
           /\ ev' = r.ev
    /\ threads' = turn_taken
    /\ UNCHANGED <<filtering_enabled, global_filter_list, interface_list, npackets,
                   written, flag_warn, down, cfg, scen>>

\* a turn of the loop: recvfrom returns -1, as it does when the socket,
\* which does not block, has no datagram
loop_receive_error ==
    /\ turn_enabled
    /\ sent' = <<>>
    /\ log' = <<"recvfrom error">>
    /\ ev' = [NoEvent EXCEPT !.interface = threads[1].events[threads[1].index + 1]]
    /\ threads' = turn_taken
    /\ UNCHANGED <<filtering_enabled, global_filter_list, interface_list, local_storage,
                   npackets, written, flag_warn, down, cfg, scen>>

\* a turn of the loop whose entry was never filled in, or lies behind the
\* array: receive() is called with what is read there.  The worker ends
\* (p is no interface) or the call goes to some interface, whose socket has
\* no datagram
loop_fault(p) ==
    /\ threads[1].pc = "loop"
    /\ loop_condition(threads[1])
    /\ threads[1].index < MaxReads
    /\ IF threads[1].index >= Len(threads[1].events) THEN TRUE
       ELSE threads[1].events[threads[1].index + 1] = NULL
    /\ threads' = [threads EXCEPT ![1] =
                      [@ EXCEPT !.pc = IF p = NULL THEN "crashed" ELSE "loop",
                                !.index = @ + 1,
                                !.reads = Append(@, threads[1].index),
                                !.calls = Append(@, p)]]
    /\ sent' = <<>>
    /\ log' = IF p = NULL THEN <<>> ELSE <<"recvfrom error">>
    /\ ev' = [NoEvent EXCEPT !.interface = p]
    /\ UNCHANGED <<filtering_enabled, global_filter_list, interface_list, local_storage,
                   npackets, written, flag_warn, down, cfg, scen>>

\* the loop condition fails: the worker waits again
loop_end ==
    /\ threads[1].pc = "loop"
    /\ ~loop_condition(threads[1])
    /\ threads' = [threads EXCEPT ![1].pc = "wait"]
    /\ UNCHANGED <<filtering_enabled, global_filter_list, interface_list, local_storage,
                   sent, log, ev, npackets, written, flag_warn, down, cfg, scen>>

NextWait ==
    \/ \E ready \in ReadyLists : epoll_wait(ready)
    \/ \E errno \in WaitErrnos : epoll_wait_fails(errno)
    \/ \E e \in Events(scen) : loop_receive(e.data)
    \/ loop_receive_error
    \/ \E p \in 0..NumInterfaces : loop_fault(p)
    \/ loop_end

SpecWait == InitWith({"wait"}) /\ [][NextWait]_vars

----------------------------------------------------------------------------
(* Startup: main reads the configuration line by line, validates the       *)
(* interfaces, builds the lists and starts the workers.                    *)

InitConfig ==
    /\ scen = "config"
    /\ cfg = ConfigStart
    /\ filtering_enabled = TRUE
    /\ global_filter_list = NULL
    /\ interface_list = <<>>
    /\ local_storage = local_storage_create
    /\ sent = <<>>
    /\ log = <<>>
    /\ ev = NoEvent
    /\ npackets = 0
    /\ written = <<>>
    /\ flag_warn = FALSE
    /\ down = {}
    /\ threads = <<>>

\* the lines behind the interface list are counted while the process lives
line_read(c, d) ==
    IF c.phase = "fatal" \/ d.key = KEY_INTERFACES THEN c ELSE [c EXCEPT !.lines = @ + 1]

\* a key line of the section that is open
ReadLine(d) ==
    /\ cfg.phase \in {"global", "section"}
    /\ cfg.lines < MaxLines
    /\ cfg' = line_read(IF cfg.phase = "global" THEN global_line(cfg, d)
                                                ELSE interface_line(cfg, d), d)
    /\ UNCHANGED <<filtering_enabled, global_filter_list, interface_list, local_storage,
                   sent, log, ev, npackets, written, flag_warn, down, threads, scen>>

\* a section header
ReadSection(index) ==
    /\ cfg.phase \in {"global", "section"}
    /\ cfg' = section_line(cfg, index)
    /\ UNCHANGED <<filtering_enabled, global_filter_list, interface_list, local_storage,
                   sent, log, ev, npackets, written, flag_warn, down, threads, scen>>

\* the end of the file: read_config returns
ReadEof ==
    /\ cfg.phase \in {"global", "section"}
    /\ cfg' = end_of_file(cfg)
    /\ UNCHANGED <<filtering_enabled, global_filter_list, interface_list, local_storage,
                   sent, log, ev, npackets, written, flag_warn, down, threads, scen>>

OsValidate(addrs) ==
    /\ cfg.phase = "configured"
    /\ cfg' = os_validate_interfaces(cfg, addrs)
    /\ UNCHANGED <<filtering_enabled, global_filter_list, interface_list, local_storage,
                   sent, log, ev, npackets, written, flag_warn, down, threads, scen>>

SetIpInterfaceLists ==
    /\ cfg.phase = "validated"
    /\ cfg' = set_ip_interface_lists(cfg)
    /\ UNCHANGED <<filtering_enabled, global_filter_list, interface_list, local_storage,
                   sent, log, ev, npackets, written, flag_warn, down, threads, scen>>

StartBridges ==
    /\ cfg.phase = "listed"
    /\ cfg' = start_bridges(cfg)
    /\ UNCHANGED <<filtering_enabled, global_filter_list, interface_list, local_storage,
                   sent, log, ev, npackets, written, flag_warn, down, threads, scen>>

NextConfig ==
    \/ \E d \in ConfigLines : ReadLine(d)
    \/ \E index \in 0..NumInterfaces : ReadSection(index)
    \/ ReadEof
    \/ \E addrs \in OsAddresses : OsValidate(addrs)
    \/ SetIpInterfaceLists
    \/ StartBridges

SpecConfig == InitConfig /\ [][NextConfig]_vars

----------------------------------------------------------------------------
(* Reading a datagram off the wire, as a receiver of it would              *)

\* the offset behind the name at off: a name ends with a zero byte or with
\* a pointer
RECURSIVE WireNameEnd(_, _)
WireNameEnd(d, off) ==
    IF off >= Len(d) THEN Len(d) + 1
    ELSE IF Rd(d, off) >= 192 THEN off + 2
    ELSE IF Rd(d, off) = 0 THEN off + 1
    ELSE WireNameEnd(d, off + Rd(d, off) + 1)

\* the label bytes of the name at off, pointers followed (at most hops times)
RECURSIVE WireName(_, _, _)
WireName(d, off, hops) ==
    IF off >= Len(d) \/ hops = 0 THEN <<>>
    ELSE IF Rd(d, off) >= 192
    THEN WireName(d, (Rd(d, off) % 64) * 256 + Rd(d, off + 1), hops - 1)
    ELSE IF Rd(d, off) = 0 THEN <<0>>
    ELSE Sub(d, off, Rd(d, off) + 1) \o WireName(d, off + Rd(d, off) + 1, hops)

MaxHops == 8

\* the entry whose fixed part is at off: its type, owner name and the name
\* its RDATA starts with
WireEntry(d, start, off, query) ==
    [query |-> query, type |-> U16(d, off),
     name |-> WireName(d, start, MaxHops),
     rname |-> IF query THEN <<>> ELSE WireName(d, off + SIZEOF_RR_HEADER, MaxHops)]

\* the queries and records of a datagram from off on, nq queries and nrr
\* records being left
RECURSIVE WireEntries(_, _, _, _)
WireEntries(d, off, nq, nrr) ==
    IF off >= Len(d) THEN <<>>
    ELSE IF nq > 0
    THEN <<WireEntry(d, off, WireNameEnd(d, off), TRUE)>>
         \o WireEntries(d, WireNameEnd(d, off) + SIZEOF_QUERY_HEADER, nq - 1, nrr)
    ELSE IF nrr > 0
    THEN <<WireEntry(d, off, WireNameEnd(d, off), FALSE)>>
         \o WireEntries(d, WireNameEnd(d, off) + SIZEOF_RR_HEADER
                           + U16(d, WireNameEnd(d, off) + 8), nq, nrr - 1)
    ELSE <<>>

\* the offset behind the last entry the header counts announce
RECURSIVE WireEnd(_, _, _, _)
WireEnd(d, off, nq, nrr) ==
    IF off > Len(d) THEN off
    ELSE IF nq > 0
    THEN WireEnd(d, WireNameEnd(d, off) + SIZEOF_QUERY_HEADER, nq - 1, nrr)
    ELSE IF nrr > 0
    THEN WireEnd(d, WireNameEnd(d, off) + SIZEOF_RR_HEADER
                    + U16(d, WireNameEnd(d, off) + 8), nq, nrr - 1)
    ELSE off

Entries(d) ==
    WireEntries(d, SIZEOF_DNS_HEADER, U16(d, 4), U16(d, 6) + U16(d, 8) + U16(d, 10))

\* a filter list admits a name: an allow list when one of its match names
\* occurs in the label bytes, a deny list when none does
Occurs(m, n) == \E k \in 0..(Len(n) - Len(m)) : SubSeq(n, k + 1, k + Len(m)) = m

Admits(list, n) ==
    IF FilterTable[list].allow_deny = ALLOW
    THEN \E i \in 1..Len(FilterTable[list].names) : Occurs(FilterTable[list].names[i], n)
    ELSE \A i \in 1..Len(FilterTable[list].names) : ~Occurs(FilterTable[list].names[i], n)

Passes(list, n) == list = NULL \/ Admits(list, n)

\* the datagrams of the last wake-up that dns_encode_packet produced
Encoded == { i \in 1..Len(sent) : sent[i].enc > 0 }

----------------------------------------------------------------------------
(* Pointer safety and read bounds of the decoder *)

\* C1: whenever a name the decoder parsed held a compression pointer whose
\* target is < 12 or >= the pointer's own offset, dns_decode_packet returned
\* 0 and no datagram was sent for that packet.
C1_BadPointerDropsPacket ==
    (ev.decoded /\ ev.g.badptr) => (ev.ret = 0 /\ sent = <<>>)

\* C2: every byte the decoder read of a received datagram of length L lies
\* at an offset < L.
C2_ReadsInsideDatagram ==
    ev.decoded => ev.g.rd < Len(ev.data)

----------------------------------------------------------------------------
(* Filtering *)

OwnerFilteredRecords ==
    {DNS_TYPE_SRV, DNS_TYPE_TXT, DNS_TYPE_HINFO, DNS_TYPE_SVCB, DNS_TYPE_HTTPS}

OwnerFilteredQueries ==
    {DNS_TYPE_SRV, DNS_TYPE_TXT, DNS_TYPE_SVCB, DNS_TYPE_HTTPS, DNS_TYPE_ANY}

DataFilteredRecords == {DNS_TYPE_PTR, DNS_TYPE_CNAME, DNS_TYPE_DNAME}

\* the name of an entry that filtering looks at passes the list
EntryPasses(list, e) ==
    IF e.query
    THEN e.type \in OwnerFilteredQueries => Admits(list, e.name)
    ELSE /\ e.type \in OwnerFilteredRecords => Admits(list, e.name)
         /\ e.type \in DataFilteredRecords => Admits(list, e.rname)

\* C3: every query and record of a datagram sent to a peer with outbound
\* filter list F passes F on the name the decoder filters that type on: the
\* owner name for SRV, TXT, HINFO, SVCB and HTTPS records and for SRV, TXT,
\* SVCB, HTTPS and ANY queries, the RDATA name for PTR, CNAME and DNAME.
C3_OutboundFilterSameName ==
    \A i \in 1..Len(sent) :
        sent[i].filter # NULL =>
            \A k \in 1..Len(Entries(sent[i].data)) :
                EntryPasses(sent[i].filter, Entries(sent[i].data)[k])

SupportedTypes ==
    {DNS_TYPE_A, DNS_TYPE_CNAME, DNS_TYPE_PTR, DNS_TYPE_HINFO, DNS_TYPE_TXT, DNS_TYPE_AAAA,
     DNS_TYPE_SRV, DNS_TYPE_DNAME, DNS_TYPE_OPT, DNS_TYPE_NSEC, DNS_TYPE_SVCB,
     DNS_TYPE_HTTPS}

\* C4: with filtering enabled no datagram that is sent holds a query or a
\* record of an unsupported type, whatever lists are configured.
C4_NoUnsupportedTypeSent ==
    filtering_enabled =>
        \A i \in 1..Len(sent) :
            \A k \in 1..Len(Entries(sent[i].data)) :
                \/ Entries(sent[i].data)[k].type \in SupportedTypes
                \/ Entries(sent[i].data)[k].query
                   /\ Entries(sent[i].data)[k].type = DNS_TYPE_ANY

C6_StatelessPerPacket ==
    ev.interface # 0 => sent = receive(local_storage_create, ev.interface, ev.data).sent

----------------------------------------------------------------------------
(* Name compression *)

\* C7: every name dns_encode_name wrote since the compression list was reset
\* decodes, at the offset it was written at, to the same label bytes and the
\* same label count, and the decoder's next offset is the offset the encoder
\* went on from.
C7_NameRoundTrip ==
    \A i \in 1..Len(written) :
        /\ dns_decode_name(local_storage.send_packet, written[i].start, ZeroName).ret
             = written[i].end
        /\ NameBytes(dns_decode_name(local_storage.send_packet, written[i].start,
                                     ZeroName).name)
             = NameBytes(written[i].name)
        /\ dns_decode_name(local_storage.send_packet, written[i].start, ZeroName).name.count
             = written[i].name.count

\* three names were written, a later one through a pointer into an earlier one
C7_Witness ==
    /\ Len(written) = MaxNames
    /\ \E i \in 2..Len(written) :
          /\ written[i].name.length > written[i].end - written[i].start
          /\ written[i].name.count > 1

----------------------------------------------------------------------------
(* The packets dns_encode_packet produces *)

\* the number of entries of a section that an encoding wrote
Written(enc, sec) == Cardinality({ k \in 1..Len(enc.trace) : enc.trace[k].sec = sec })

Source(t) == GetE(local_storage.dns_state.rr_list, t.slot, ZeroRR)

\* the RDATA of a written record is what its type asks for; out is the
\* datagram, t the entry, src the offset of the RDATA it was made from and
\* len the length of that RDATA
RdataFaithful(out, t, src, len) ==
    /\ U16(out, t.hdr + 8) = t.end - t.rdata
    /\ IF t.type \in DataFilteredRecords
       THEN /\ WireNameEnd(out, t.rdata) = t.end
            /\ WireName(out, t.rdata, MaxHops) = WireName(ev.data, src, MaxHops)
       ELSE IF t.type = DNS_TYPE_SRV
       THEN /\ Sub(out, t.rdata, SIZEOF_SRV_DATA) = Sub(ev.data, src, SIZEOF_SRV_DATA)
            /\ WireNameEnd(out, t.rdata + SIZEOF_SRV_DATA) = t.end
            /\ WireName(out, t.rdata + SIZEOF_SRV_DATA, MaxHops)
                 = WireName(ev.data, src + SIZEOF_SRV_DATA, MaxHops)
       ELSE IF t.type = DNS_TYPE_NSEC
       THEN /\ WireName(out, t.rdata, MaxHops) = WireName(ev.data, src, MaxHops)
            /\ Sub(out, WireNameEnd(out, t.rdata), t.end - WireNameEnd(out, t.rdata))
                 = Sub(ev.data, WireNameEnd(ev.data, src),
                       src + len - WireNameEnd(ev.data, src))
       ELSE Sub(out, t.rdata, t.end - t.rdata) = Sub(ev.data, src, len)

\* C9: the RDATA length field of every record the encoder wrote is the
\* number of bytes written behind the record's fixed header: the name again
\* for PTR, CNAME and DNAME, the six fixed bytes and the target for SRV, the
\* name and the type bitmap bytes of the source for NSEC, the RDATA of the
\* source for every other type.
C9_RdataLength ==
    \A j \in 1..Len(ev.encs) :
        \A k \in 1..Len(ev.encs[j].trace) :
            ev.encs[j].trace[k].sec >= 0 =>
                RdataFaithful(ev.encs[j].out, ev.encs[j].trace[k],
                              Source(ev.encs[j].trace[k]).data + SIZEOF_RR_HEADER,
                              U16(ev.data, Source(ev.encs[j].trace[k]).data + 8))

\* the peers of the ingress interface whose outbound list is f
PeersOf(f) ==
    { p \in 1..Len(interface_list) :
        p # ev.interface /\ interface_list[p].outbound_filter_list = f }

SentTo(f) == { sent[i].peer : i \in { i \in 1..Len(sent) : sent[i].filter = f } }

\* C10: when inbound filtering leaves nothing of a datagram, nothing is
\* sent; when an outbound list leaves nothing to write, dns_encode_packet
\* returns 0 and the peers of that list get nothing, while the peers of every
\* other list, and those without one, get their datagram.
C10_NothingLeftNothingSent ==
    ev.decoded =>
        /\ (\A k \in 1..Len(ev.g.trace) : ~ev.g.trace[k].allowed) => sent = <<>>
        /\ \A j \in 1..Len(ev.encs) :
              IF ev.encs[j].trace = <<>>
              THEN ev.encs[j].ret = 0 /\ SentTo(ev.encs[j].filter) = {}
              ELSE ev.encs[j].ret # 0 /\ SentTo(ev.encs[j].filter) = PeersOf(ev.encs[j].filter)
        /\ ev.ret # 0 => SentTo(NULL) = PeersOf(NULL)

\* one outbound list left nothing while another peer was served
C10_Witness ==
    /\ ev.decoded
    /\ \E j \in 1..Len(ev.encs) : ev.encs[j].trace = <<>> /\ PeersOf(ev.encs[j].filter) # {}
    /\ sent # <<>>

----------------------------------------------------------------------------
(* The worker's dispatch *)

\* the peers of the ingress interface of the last wake-up
Peers == { p \in 1..Len(interface_list) : p # ev.interface }

\* C11: with packet filtering disabled a received datagram is not decoded
\* and goes, with its length and its bytes unchanged, to every peer of the
\* interface it came in on, once.
C11_DisabledForwardsVerbatim ==
    (~filtering_enabled /\ ev.interface # 0) =>
        /\ ~ev.decoded
        /\ Len(sent) = Cardinality(Peers)
        /\ { sent[i].peer : i \in 1..Len(sent) } = Peers
        /\ \A i \in 1..Len(sent) :
              sent[i].data = ev.data /\ sent[i].bytes = Len(ev.data)

\* a datagram the decoder would have rejected went out to two peers
C11_Witness ==
    /\ ~filtering_enabled
    /\ Len(ev.data) = SIZEOF_DNS_HEADER
    /\ Len(sent) >= 2

\* the outbound filter lists of the peers, NULL left out
PeerLists == { interface_list[p].outbound_filter_list : p \in Peers } \ {NULL}

\* C12: for a datagram that passed decoding, dns_encode_packet was called
\* once for the peers without an outbound list (when there is such a peer)
\* and once more for every distinct outbound list among the peers.
C12_EncoderInvocations ==
    (ev.decoded /\ ev.ret # 0) =>
        Len(ev.encs) =
            (IF \E p \in Peers : interface_list[p].outbound_filter_list = NULL
             THEN 1 ELSE 0) + Cardinality(PeerLists)

\* the place of a peer in the peer list of the ingress interface
PeerPlace(p) ==
    CHOOSE k \in 1..interface_list[ev.interface].peer_count :
        interface_list[ev.interface].peer_list[k] = p

\* the place of an outbound list among the variants recorded for the ingress
\* interface; the peers without a list come first
VariantPlace(f) ==
    IF f = NULL THEN 0
    ELSE CHOOSE k \in 1..interface_list[ev.interface].peer_filter_count :
             interface_list[ev.interface].peer_filter_list[k] = f

\* C13: the datagrams of one wake-up go out in a fixed order: first to the
\* peers without an outbound list in peer list order, then variant by
\* variant in the order the variants were recorded, within a variant in peer
\* list order; each peer is sent the datagram of its own variant.
C13_DispatchOrder ==
    /\ \A i \in 1..Len(sent) :
          sent[i].filter = interface_list[sent[i].peer].outbound_filter_list
    /\ \A i, j \in 1..Len(sent) :
          i < j =>
            \/ VariantPlace(sent[i].filter) < VariantPlace(sent[j].filter)
            \/ /\ sent[i].filter = sent[j].filter
               /\ PeerPlace(sent[i].peer) < PeerPlace(sent[j].peer)

\* a peer without a list was served before a peer that precedes it in the
\* peer list and has a list
C13_Witness ==
    /\ \E i, j \in 1..Len(sent) :
          /\ i < j
          /\ PeerPlace(sent[i].peer) > PeerPlace(sent[j].peer)
          /\ sent[i].filter = NULL
          /\ sent[j].filter # NULL

----------------------------------------------------------------------------
(* Structural checks of the decoder *)

\* the four counts of a datagram's header
CountQ(d) == U16(d, 4)

CountRR(d) == U16(d, 6) + U16(d, 8) + U16(d, 10)

\* C14: a datagram dns_decode_packet accepts is exactly as long as its
\* header, the queries and the records its header announces: one with bytes
\* behind them, or one that ends before they do, is dropped.
C14_ConsumedLengthExact ==
    (ev.decoded /\ ev.ret # 0) =>
        WireEnd(ev.data, SIZEOF_DNS_HEADER, CountQ(ev.data), CountRR(ev.data)) = Len(ev.data)

\* a datagram with a byte behind its last record was dropped
C14_Witness ==
    /\ ev.decoded
    /\ ev.ret = 0
    /\ sent = <<>>
    /\ WireEnd(ev.data, SIZEOF_DNS_HEADER, CountQ(ev.data), CountRR(ev.data)) < Len(ev.data)

\* the records of a datagram: where the owner name starts and where the
\* fixed part starts
RECURSIVE WireRecords(_, _, _, _)
WireRecords(d, off, nq, nrr) ==
    IF off >= Len(d) THEN <<>>
    ELSE IF nq > 0
    THEN WireRecords(d, WireNameEnd(d, off) + SIZEOF_QUERY_HEADER, nq - 1, nrr)
    ELSE IF nrr > 0
    THEN <<[start |-> off, hdr |-> WireNameEnd(d, off)]>>
         \o WireRecords(d, WireNameEnd(d, off) + SIZEOF_RR_HEADER
                           + U16(d, WireNameEnd(d, off) + 8), nq, nrr - 1)
    ELSE <<>>

Records(d) == WireRecords(d, SIZEOF_DNS_HEADER, CountQ(d), CountRR(d))

\* the inbound lists keep a record with this owner name
KeptInbound(n) ==
    /\ Passes(global_filter_list, n)
    /\ Passes(interface_list[ev.interface].inbound_filter_list, n)

\* the record with its fixed part at hdr has to make the decoder drop the
\* datagram d: RDATA is empty or leaves the datagram, or the name of a PTR,
\* CNAME, DNAME or of a kept SRV record does not end where RDATA ends
MustDrop(d, start, hdr) ==
    \/ U16(d, hdr + 8) = 0
    \/ hdr + SIZEOF_RR_HEADER + U16(d, hdr + 8) > Len(d)
    \/ /\ U16(d, hdr) \in DataFilteredRecords
       /\ dns_decode_name(local_storage.recv_packet, hdr + SIZEOF_RR_HEADER, ZeroName).ret
            # hdr + SIZEOF_RR_HEADER + U16(d, hdr + 8)
    \/ /\ U16(d, hdr) = DNS_TYPE_SRV
       /\ KeptInbound(WireName(d, start, MaxHops))
       /\ dns_decode_name(local_storage.recv_packet,
                           hdr + SIZEOF_RR_HEADER + SIZEOF_SRV_DATA, ZeroName).ret
            # hdr + SIZEOF_RR_HEADER + U16(d, hdr + 8)

\* C15: a datagram is dropped as a whole when one of its records has an
\* RDATA length of 0 or an RDATA that leaves the datagram, or is a PTR, CNAME
\* or DNAME record (kept by the lists or not) or a kept SRV record whose
\* RDATA name does not end exactly where RDATA ends.
C15_RdataNameFillsRdata ==
    ev.decoded =>
        \A k \in 1..Len(Records(ev.data)) :
            (/\ Records(ev.data)[k].hdr + SIZEOF_RR_HEADER <= Len(ev.data)
             /\ MustDrop(ev.data, Records(ev.data)[k].start, Records(ev.data)[k].hdr))
                => (ev.ret = 0 /\ sent = <<>>)

\* a PTR record the global list would not keep, with two bytes behind its
\* name, made the decoder drop the datagram
C15_Witness ==
    /\ ev.decoded
    /\ global_filter_list # NULL
    /\ ev.ret = 0
    /\ \E k \in 1..Len(Records(ev.data)) :
          /\ U16(ev.data, Records(ev.data)[k].hdr) = DNS_TYPE_PTR
          /\ U16(ev.data, Records(ev.data)[k].hdr + 8) = 6
          /\ ~KeptInbound(WireName(ev.data, Records(ev.data)[k].hdr + SIZEOF_RR_HEADER,
                                    MaxHops))

----------------------------------------------------------------------------
(* Limits of names and of the decoder's lists *)

\* the names the decoder kept of the last datagram: the owner names of its
\* queries and records and the names it read from RDATA
KeptNames ==
    { GetE(local_storage.dns_state.query_list, i, ZeroQuery).name :
          i \in 0..(local_storage.dns_state.query_count - 1) }
    \cup { GetE(local_storage.dns_state.rr_list, i, ZeroRR).name :
          i \in 0..(local_storage.dns_state.total_rr_count - 1) }
    \cup { GetE(local_storage.dns_state.rr_list, i, ZeroRR).rdata_name :
          i \in { j \in 0..(local_storage.dns_state.total_rr_count - 1) :
                    GetE(local_storage.dns_state.rr_list, j, ZeroRR).type
                        \in DataFilteredRecords \cup {DNS_TYPE_SRV} } }

\* the length byte of label i of a name
LabelLen(n, i) == Rd(n.labels, Rd(n.offset, i))

\* C16: when a datagram is accepted, every label but the last of every
\* name the decoder kept has a length byte between 1 and 63; a length byte
\* of 64..191 is never taken for an ordinary label.
C16_LabelLengths ==
    (ev.decoded /\ ev.ret # 0) =>
        \A n \in KeptNames :
            \A i \in 0..(n.count - 2) : LabelLen(n, i) \in 1..(MAX_LABEL_LEN - 1)

\* a decoded name is well formed: at most 256 bytes that end with the root
\* label, at most 128 labels, and an offset table that holds the start of
\* every label
NameOK(n) ==
    /\ n.length \in 1..DNS_MAX_NAME_LEN
    /\ Rd(n.labels, n.length - 1) = 0
    /\ n.count \in 1..DNS_MAX_NUM_LABELS
    /\ Rd(n.offset, 0) = 0
    /\ \A i \in 0..(n.count - 2) :
          Rd(n.offset, i + 1) = Rd(n.offset, i) + LabelLen(n, i) + 1
    /\ Rd(n.offset, n.count - 1) = n.length - 1

\* every name slot of the decoder's lists, whatever was written to it
SlotNames ==
    { local_storage.dns_state.query_list[i].name :
          i \in 1..Len(local_storage.dns_state.query_list) }
    \cup { local_storage.dns_state.rr_list[i].name :
          i \in 1..Len(local_storage.dns_state.rr_list) }
    \cup { local_storage.dns_state.rr_list[i].rdata_name :
          i \in 1..Len(local_storage.dns_state.rr_list) }

\* C17: every name of an accepted datagram is at most 256 bytes long with
\* the root label as its last byte, has at most 128 labels and an offset
\* table that holds the start of each label; and no name slot, of an
\* accepted or a dropped datagram, was written behind byte 255 of its labels
\* or behind entry 127 of its offset table.
C17_NameWithinBuffers ==
    /\ (ev.decoded /\ ev.ret # 0) => \A n \in KeptNames : NameOK(n)
    /\ \A n \in SlotNames :
          /\ Len(n.labels) <= DNS_MAX_NAME_LEN
          /\ Len(n.offset) <= DNS_MAX_NUM_LABELS

\* a name of exactly 256 bytes was accepted
C17_Witness ==
    /\ ev.decoded
    /\ ev.ret # 0
    /\ \E n \in KeptNames : n.length = DNS_MAX_NAME_LEN

\* C18: a datagram whose header announces more than 1498 queries, or more
\* than 749 records in its three sections together, is dropped, whatever
\* the lists have grown to; and no query or record is stored at or behind
\* the allocated count of its list.
C18_CountCaps ==
    /\ (/\ ev.decoded
        /\ Len(ev.data) >= SIZEOF_DNS_HEADER
        /\ \/ CountQ(ev.data) > MAX_QUERY_COUNT
           \/ CountRR(ev.data) > MAX_RESOURCE_COUNT)
          => (ev.ret = 0 /\ sent = <<>>)
    /\ Len(local_storage.dns_state.query_list)
          <= local_storage.dns_state.allocated_query_count
    /\ Len(local_storage.dns_state.rr_list)
          <= local_storage.dns_state.allocated_rr_count

\* the query list has grown and holds a query in its last slot, and a
\* datagram that announces more queries than the cap was dropped
C18_Witness ==
    /\ local_storage.dns_state.allocated_query_count > INITIAL_QUERY_COUNT
    /\ Len(local_storage.dns_state.query_list)
          = local_storage.dns_state.allocated_query_count
    /\ ev.decoded
    /\ CountQ(ev.data) > MAX_QUERY_COUNT
    /\ ev.ret = 0
    /\ sent = <<>>

----------------------------------------------------------------------------
(* Link local addresses and the warn flag *)

\* the record with its fixed part at hdr is an A record for 169.254/16 or
\* an AAAA record for fe80::/10
LinkLocal(d, hdr) ==
    \/ /\ U16(d, hdr) = DNS_TYPE_A
       /\ U16(d, hdr + 8) = 4
       /\ Rd(d, hdr + SIZEOF_RR_HEADER) = 169
       /\ Rd(d, hdr + SIZEOF_RR_HEADER + 1) = 254
    \/ /\ U16(d, hdr) = DNS_TYPE_AAAA
       /\ U16(d, hdr + 8) = 16
       /\ Rd(d, hdr + SIZEOF_RR_HEADER) = 254
       /\ Rd(d, hdr + SIZEOF_RR_HEADER + 1) \div 64 = 2

\* C19: no datagram sent to a peer holds an A record with an address in
\* 169.254/16 or an AAAA record with an address in fe80::/10.
C19_NoLinkLocalSent ==
    \A i \in 1..Len(sent) :
        \A k \in 1..Len(Records(sent[i].data)) :
            ~LinkLocal(sent[i].data, Records(sent[i].data)[k].hdr)

\* C20: without -w, decoding a datagram logs no notice of an unsupported
\* type, for a query or for a record.
C20_SilentWithoutWarn ==
    (flag_warn = 0 /\ ev.decoded) =>
        \A i \in 1..Len(ev.g.log) :
            ev.g.log[i] \notin {"unsupported query type (dropped)",
                                "unsupported type in record (dropped)"}

----------------------------------------------------------------------------
(* Errors of one wake-up *)

\* the notices of an unsupported type and the name line behind them
TypeNotices ==
    {"unsupported query type (dropped)", "unsupported type in record (dropped)", "(name)"}

\* the lines logged for structural errors while the last datagram was decoded
ErrorLines == { i \in 1..Len(ev.g.log) : ev.g.log[i] \notin TypeNotices }

\* C21: a datagram that is dropped for a structural error of the decoder
\* leaves exactly one log line for the error, wherever the error is.
C21_OneLinePerDrop ==
    (ev.decoded /\ ev.ret = 0 /\ ErrorLines # {}) => Cardinality(ErrorLines) = 1

\* a dns_encode_name call of this encoding returned 0: the fixed part of a
\* query or record, or the bytes behind an RDATA name, were put at offset 0
EncodeFailed(enc) ==
    \E k \in 1..Len(enc.trace) : enc.trace[k].hdr = 0 \/ enc.trace[k].nameend = 0

\* C22: when the compression list cannot be grown while a datagram is
\* written for an outbound variant, nothing is sent for that variant; when
\* the query or record list cannot be grown the datagram is dropped.
C22_AllocationFailureDrops ==
    /\ \A k \in 1..Len(ev.encs) :
          EncodeFailed(ev.encs[k]) => \A i \in 1..Len(sent) : sent[i].enc # k
    /\ (\E i \in 1..Len(ev.g.log) : ev.g.log[i] = "Cannot allocate memory")
          => (ev.ret = 0 /\ sent = <<>>)

\* the sendto calls of the last wake-up reached every peer of every variant
\* that was started, and every call that failed left its line in the log
SendsComplete ==
    /\ \A i \in 1..Len(sent) :
          \A q \in PeersOf(sent[i].filter) :
              \E j \in 1..Len(sent) : sent[j].peer = q /\ sent[j].enc = sent[i].enc
    /\ \A k \in 1..Len(ev.encs) :
          (ev.encs[k].filter # NULL /\ ev.encs[k].ret # 0)
              => \E j \in 1..Len(sent) : sent[j].enc = k
    /\ (ev.interface # 0 /\ (~ev.decoded \/ ev.ret # 0) /\ ev.data # <<>>)
          => \A q \in PeersOf(NULL) : \E j \in 1..Len(sent) : sent[j].peer = q
    /\ Cardinality({ i \in 1..Len(sent) : sent[i].peer \in down })
          = Cardinality({ i \in 1..Len(log) : log[i] = "sendto error" })

\* the last wake-up met an error: recvfrom failed, the decoder rejected the
\* datagram, or a sendto failed
WakeUpFailed ==
    \/ \E i \in 1..Len(log) : log[i] \in {"recvfrom error", "sendto error"}
    \/ ev.decoded /\ ev.ret = 0

\* C23: a sendto that fails is logged and the peers behind it are still
\* sent their datagrams; and after a wake-up with a failed sendto, a failed
\* recvfrom or a rejected datagram the worker handles the next event.
C23_ErrorsDoNotStop ==
    /\ []SendsComplete
    /\ \A n \in 0..(MaxPackets - 1) :
          (npackets = n /\ (n = 0 \/ WakeUpFailed)) ~> (npackets = n + 1)

\* a second event was handled, and in it the sendto to the first peer that
\* was served failed and a peer behind it was served
C23_Witness ==
    /\ npackets = 2
    /\ Len(sent) >= 2
    /\ sent[1].peer \in down
    /\ sent[2].peer \notin down
    /\ \E i \in 1..Len(log) : log[i] = "sendto error"

----------------------------------------------------------------------------
(* Properties of the configuration *)

\* the process lives: no line was fatal
Alive == cfg.phase \in {"global", "section", "configured", "validated", "listed", "started"}

\* read_config has returned
Accepted == cfg.phase \in {"configured", "validated", "listed", "started"}

Interfaces == 1..Len(cfg.configured_interface_list)

\* a filter list of some kind exists
ListsExist ==
    \/ cfg.global_filter_list # NULL
    \/ \E index \in Interfaces :
          \/ cfg.configured_interface_list[index].inbound_filter_list # NULL
          \/ cfg.configured_interface_list[index].outbound_filter_list # NULL

\* C24: while the configuration is read and when it is accepted, packet
\* filtering is never disabled while a global, inbound or outbound filter
\* list exists: a line that would combine the two ends the process.
C24_DisableExcludesFilters ==
    (Alive /\ cfg.filtering_enabled = 0) => ~ListsExist

\* an accepted configuration of several lines that ends with filtering disabled
C24_Witness ==
    /\ Accepted
    /\ cfg.filtering_enabled = 0
    /\ cfg.lines = MaxLines

\* C25: no interface has taken more than one inbound filter line in a
\* configuration that was not fatal.
C25_OneInboundLine ==
    Alive => \A index \in Interfaces :
                 cfg.configured_interface_list[index].inbound_lines <= 1

\* the string a match name was made from
RECURSIVE LabelsString(_, _)
LabelsString(labels, offset) ==
    IF offset >= Len(labels) THEN <<>>
    ELSE (IF offset = 0 THEN <<>> ELSE <<DOT>>)
         \o SubSeq(labels, offset + 2,
                   IF offset + 1 + labels[offset + 1] > Len(labels) THEN Len(labels)
                   ELSE offset + 1 + labels[offset + 1])
         \o LabelsString(labels, offset + 1 + labels[offset + 1])

\* the interfaces that took equal outbound filter lines
SameOutboundLines(i, j) ==
    /\ cfg.configured_interface_list[i].outbound_line # <<>>
    /\ cfg.configured_interface_list[i].outbound_line
          = cfg.configured_interface_list[j].outbound_line

\* equal outbound lines share one list
OutboundShared ==
    \A i, j \in Interfaces :
        SameOutboundLines(i, j)
            => cfg.configured_interface_list[i].outbound_filter_list
                   = cfg.configured_interface_list[j].outbound_filter_list

\* the names of every list are in the order of strcmp, each once
ListsSorted ==
    \A f \in 1..Len(cfg.heap) :
        \A k \in 1..(cfg.heap[f].count - 1) :
            strcmp(LabelsString(cfg.heap[f].names[k].labels, 0),
                   LabelsString(cfg.heap[f].names[k + 1].labels, 0)) < 0

\* the outbound lists of the peers of an interface in a family
PeerOutboundLists(index, t) ==
    { cfg.configured_interface_list[
          cfg.configured_interface_list[index].peers[t].peer_list[j]].outbound_filter_list :
        j \in 1..cfg.configured_interface_list[index].peers[t].peer_count } \ {NULL}

\* the list of peer filter variants holds each of them once
VariantsOnce ==
    cfg.phase \in {"listed", "started"} =>
        \A index \in Interfaces : \A t \in IpTypes :
            /\ Len(cfg.configured_interface_list[index].peers[t].peer_filter_list)
                  = cfg.configured_interface_list[index].peers[t].peer_filter_count
            /\ { cfg.configured_interface_list[index].peers[t].peer_filter_list[k] :
                   k \in 1..cfg.configured_interface_list[index].peers[t].peer_filter_count }
                  = PeerOutboundLists(index, t)
            /\ Cardinality(PeerOutboundLists(index, t))
                  = cfg.configured_interface_list[index].peers[t].peer_filter_count

\* C26: interfaces whose outbound filter lines have the same mode and the
\* same set of strings reference one filter list, the names of every filter
\* list are sorted without duplicates, and the peer filter variants of an
\* interface hold each outbound list of its peers exactly once.
C26_SharedSortedOnce ==
    Alive => (OutboundShared /\ ListsSorted /\ VariantsOnce)

\* the interfaces a family is enabled for
Enabled(t) == { index \in Interfaces : cfg.configured_interface_list[index].disable_ip[t] = 0 }

\* the elements of a sequence
Range(seq) == { seq[k] : k \in 1..Len(seq) }

\* the sequence is in the order of the configuration
Ascending(seq) == \A k \in 1..(Len(seq) - 1) : seq[k] < seq[k + 1]

\* C27: after set_ip_interface_lists the peers of an interface enabled in
\* a family are the other interfaces enabled in it, in the order of the
\* configuration; peer_count is their number, and the peers without and
\* with an outbound filter list add up to it.
C27_PeerLists ==
    cfg.phase \in {"listed", "started"} =>
        \A t \in IpTypes : \A index \in Enabled(t) :
            /\ Range(cfg.configured_interface_list[index].peers[t].peer_list)
                  = Enabled(t) \ {index}
            /\ Ascending(cfg.configured_interface_list[index].peers[t].peer_list)
            /\ cfg.configured_interface_list[index].peers[t].peer_count
                  = Cardinality(Enabled(t)) - 1
            /\ cfg.configured_interface_list[index].peers[t].peer_nofilter_count
               + Cardinality({ p \in Enabled(t) \ {index} :
                     cfg.configured_interface_list[p].outbound_filter_list # NULL })
                  = cfg.configured_interface_list[index].peers[t].peer_count

\* the lists are built: one family has three interfaces, one of whose peers
\* has an outbound list, the other family has two
C27_Witness ==
    /\ cfg.phase = "listed"
    /\ \E t \in IpTypes : Cardinality(Enabled(t)) = 2
    /\ \E t \in IpTypes :
          /\ Cardinality(Enabled(t)) = 3
          /\ \E index \in Enabled(t) :
                /\ cfg.configured_interface_list[index].peers[t].peer_filter_count = 1
                /\ cfg.configured_interface_list[index].peers[t].peer_nofilter_count = 1

\* a family that was left with fewer than two interfaces is disabled everywhere
FamilyOff(c, t) ==
    /\ c.ip_interface_count[t] = 0
    /\ \A index \in 1..Len(c.configured_interface_list) :
          c.configured_interface_list[index].disable_ip[t] = 1

\* C28: a family with fewer than two enabled interfaces after the
\* validation is disabled for every interface by set_ip_interface_lists and
\* gets no worker; when this is so for both families the process exits.
C28_FewerThanTwo ==
    /\ [][cfg.phase = "validated" =>
            /\ \A t \in IpTypes :
                  (Len(EnabledInterfaces(cfg, t)) < 2 /\ cfg'.phase # "fatal")
                      => FamilyOff(cfg', t)
            /\ (\A t \in IpTypes : Len(EnabledInterfaces(cfg, t)) < 2)
                  => cfg'.phase = "fatal"]_vars
    /\ [](cfg.phase = "started" =>
            \A t \in IpTypes : (t \in cfg.threads) = ~FamilyOff(cfg, t))

\* the workers are started: one family had a single interface left and has
\* no worker, the other has one
C28_Witness ==
    /\ cfg.phase = "started"
    /\ cfg.threads = {IPV4}
    /\ FamilyOff(cfg, IPV6)

----------------------------------------------------------------------------
(* Queries of type ANY *)

\* the datagram holds the query of type ANY for the name
HoldsAnyQuery(d, name) ==
    \E j \in 1..Len(Entries(d)) :
        /\ Entries(d)[j].query
        /\ Entries(d)[j].type = DNS_TYPE_ANY
        /\ Entries(d)[j].name = name

\* C29: every query of type ANY of a datagram the decoder found no error
\* in is sent to every peer of the ingress interface, whatever the global,
\* inbound and outbound filter lists hold.
C29_AnyQueriesForwarded ==
    (ev.decoded /\ ErrorLines = {}) =>
        \A k \in 1..Len(Entries(ev.data)) :
            (Entries(ev.data)[k].query /\ Entries(ev.data)[k].type = DNS_TYPE_ANY) =>
                \A p \in Peers :
                    \E i \in 1..Len(sent) :
                        /\ sent[i].peer = p
                        /\ HoldsAnyQuery(sent[i].data, Entries(ev.data)[k].name)

----------------------------------------------------------------------------
(* The workers of the two families *)

\* what a worker sent for its last datagram is what receive() sends for it
\* when no other worker runs
WorkersAlone ==
    \A ip_type \in DOMAIN threads :
        (threads[ip_type].pc = "wait" /\ threads[ip_type].events > 0)
            => threads[ip_type].sent = threads[ip_type].expect

\* a step changes the storage of the one worker that takes it
OwnStorageOnly ==
    \A ip_type \in DOMAIN threads :
        threads'[ip_type].local_storage # threads[ip_type].local_storage
            => /\ threads'[ip_type].pc # threads[ip_type].pc
               /\ \A other \in DOMAIN threads \ {ip_type} :
                     threads'[other] = threads[other]

\* C30: under every interleaving of the steps of the two workers, each
\* worker writes its own packets, decoder and encoder state only, what it
\* sends is what it sends when it runs alone, and the interface records,
\* peer lists and filter lists stay as the initialization left them.
C30_NoSharedMutableState ==
    /\ []WorkersAlone
    /\ [][OwnStorageOnly]_vars
    /\ [][UNCHANGED <<filtering_enabled, global_filter_list, interface_list>>]_vars

\* one worker has read a datagram, and before it went on the other worker
\* read another one and sent it on
C30_Witness ==
    /\ threads # <<>>
    /\ threads[IPV4].pc = "received"
    /\ threads[IPV6].pc = "wait"
    /\ threads[IPV6].events = 1
    /\ threads[IPV6].sent # <<>>
    /\ threads[IPV6].data # threads[IPV4].data

----------------------------------------------------------------------------
(* The compression list while a packet is written *)

ClistEntry(state, index) == GetE(state.clist, index, ZeroEntry)

\* the entries whose children have a range of their own
Parents(state) ==
    { index \in 0..(state.used_clist_count - 1) :
         ClistEntry(state, index).child_allocated > 0 }

ChildRange(state, index) ==
    ClistEntry(state, index).child_index
        .. (ClistEntry(state, index).child_index
              + ClistEntry(state, index).child_allocated - 1)

ClistShape(state) ==
    /\ state.used_clist_count <= state.allocated_clist_count
    /\ \A index \in Parents(state) :
          /\ ClistEntry(state, index).child_used <= ClistEntry(state, index).child_allocated
          /\ \A child \in ChildRange(state, index) :
                child > index /\ child < state.used_clist_count
    /\ \A i, j \in Parents(state) :
          i # j => ChildRange(state, i) \cap ChildRange(state, j) = {}

\* the labels of a name from the top down, as the encoder walks them
NamePath(name) == AsSeq([k \in 1..(name.count - 1) |-> LabelAt(name, name.count - 1 - k)])

Paths == UNION { { SubSeq(NamePath(name), 1, k) : k \in 1..(name.count - 1) } :
                 name \in NamePool }

\* the entry a path leads to from the root entry, -1 when there is none
RECURSIVE ClistFind(_, _, _)
ClistFind(state, parent, path) ==
    LET hits == { index \in ClistEntry(state, parent).child_index
                              .. (ClistEntry(state, parent).child_index
                                    + ClistEntry(state, parent).child_used - 1) :
                     ClistEntry(state, index).label = Head(path) }
    IN  IF path = <<>> THEN parent
        ELSE IF hits = {} THEN -1
        ELSE ClistFind(state, CHOOSE index \in hits : TRUE, Tail(path))

PointerOf(state, path) ==
    IF ClistFind(state, 0, path) = -1 THEN -1
    ELSE ClistEntry(state, ClistFind(state, 0, path)).pointer

\* a label that is in the list stays under its path, and a pointer that was
\* set keeps its value
PathsKept ==
    \A path \in Paths :
        /\ PointerOf(local_storage.dns_state, path) # -1
              => PointerOf(local_storage'.dns_state, path) # -1
        /\ PointerOf(local_storage.dns_state, path) > 0
              => PointerOf(local_storage'.dns_state, path)
                   = PointerOf(local_storage.dns_state, path)

\* C31: after every sequence of label insertions behind a reset, the used
\* count is within the allocated count, every range of children holds its
\* used count, lies behind its entry and inside the used part of the list,
\* the ranges of distinct entries are disjoint, and a label that was
\* inserted is still found under its path with the pointer it was given.
C31_ClistWellFormed ==
    /\ [](scen = "name" => ClistShape(local_storage.dns_state))
    /\ [][scen = "name" => PathsKept]_vars

\* a range of two children was doubled in the middle of the list: the
\* children of _tcp moved up, and the labels written before are in the list
C31_Witness ==
    /\ scen = "name"
    /\ Len(written) = MaxNames
    /\ ClistEntry(local_storage.dns_state, ClistFind(local_storage.dns_state, 0, <<L_local>>))
          .child_allocated = 4
    /\ ClistEntry(local_storage.dns_state,
                  ClistFind(local_storage.dns_state, 0, <<L_local, L_tcp>>)).child_index
          > clist_initializer[3].child_index

----------------------------------------------------------------------------
(* The pointers of the compression list *)

\* the name a path stands for, as it is written: the last label first
RECURSIVE PathWire(_)
PathWire(path) ==
    IF path = <<>> THEN <<0>>
    ELSE path[Len(path)] \o PathWire(SubSeq(path, 1, Len(path) - 1))

\* a name with these labels at its end was written since the reset
Emitted(path) ==
    \E i \in 1..Len(written) :
        /\ Len(path) <= Len(NamePath(written[i].name))
        /\ SubSeq(NamePath(written[i].name), 1, Len(path)) = path

\* the offset of the pointer that ends the name at off, -1 when the name
\* ends with the root label
RECURSIVE NamePointer(_, _)
NamePointer(d, off) ==
    IF off >= Len(d) THEN -1
    ELSE IF IS_LABEL_POINTER(Rd(d, off)) THEN off
    ELSE IF Rd(d, off) = 0 THEN -1
    ELSE NamePointer(d, off + Rd(d, off) + 1)

PointerTarget(d, off) == POINTER_OFFSET(Rd(d, off), Rd(d, off + 1))

PointersOfPacket(ls) ==
    \A path \in Paths :
        /\ PointerOf(ls.dns_state, path) > 0 <=> Emitted(path)
        /\ PointerOf(ls.dns_state, path) > 0 =>
              /\ PointerOf(ls.dns_state, path)
                    = OFFSET_TO_POINTER(PointerOf(ls.dns_state, path) % 16384)
              /\ PointerOf(ls.dns_state, path) % 16384 >= SIZEOF_DNS_HEADER
              /\ PointerOf(ls.dns_state, path) % 16384 < ls.send_packet.bytes
              /\ WireName(Sub(ls.send_packet.buffer, 0, ls.send_packet.bytes),
                          PointerOf(ls.dns_state, path) % 16384, MaxHops)
                    = PathWire(path)

PointersGoBack(ls) ==
    \A i \in 1..Len(written) :
        NamePointer(Sub(ls.send_packet.buffer, 0, written[i].end), written[i].start) # -1
          => /\ PointerTarget(ls.send_packet.buffer,
                     NamePointer(Sub(ls.send_packet.buffer, 0, written[i].end),
                                 written[i].start))
                  < NamePointer(Sub(ls.send_packet.buffer, 0, written[i].end),
                                written[i].start)
             /\ PointerTarget(ls.send_packet.buffer,
                     NamePointer(Sub(ls.send_packet.buffer, 0, written[i].end),
                                 written[i].start))
                  >= SIZEOF_DNS_HEADER

\* C32: while a packet is encoded, the pointer of an entry is set exactly
\* when its label was written into this packet, it then is the pointer to
\* the offset (12 or more, below the write offset) where the label and the
\* labels above it stand, and every pointer written into the packet goes
\* back to a smaller offset; a seeded label that was not written yet has
\* no pointer, and the reset that starts the next packet leaves none.
C32_PointersOfThisPacket ==
    scen = "name" =>
        /\ PointersOfPacket(local_storage)
        /\ PointersGoBack(local_storage)
        /\ \A path \in Paths : PointerOf(clist_reset(local_storage.dns_state), path) <= 0

\* names under `local` were written, one of them through a pointer to
\* `local`, and the seeded `_tcp` was not written and has no pointer
C32_Witness ==
    /\ scen = "name"
    /\ PointerOf(local_storage.dns_state, <<L_local>>) > 0
    /\ PointerOf(local_storage.dns_state, <<L_local, L_tcp>>) = 0
    /\ \E i \in 1..Len(written) :
          /\ written[i].name.count > 1
          /\ NamePointer(Sub(local_storage.send_packet.buffer, 0, written[i].end),
                         written[i].start) > written[i].start

----------------------------------------------------------------------------
(* The peers without an outbound list *)

\* a global list or an inbound list of the ingress interface is configured
InboundListed ==
    global_filter_list # NULL \/ interface_list[ev.interface].inbound_filter_list # NULL

\* a query or record of the last datagram did not pass inbound filtering
InboundRejected ==
    \E k \in 1..Len(ev.g.trace) : ev.g.trace[k].known /\ ~ev.g.trace[k].allowed

\* the calls of sendto for the peers without an outbound list
NofilterCalls == { i \in 1..Len(sent) : sent[i].filter = NULL }

\* C33 as stated: with a global or an inbound list configured, the peers
\* without an outbound list are sent the bytes as received when inbound
\* filtering rejected nothing.
C33_OriginalWhenNothingRejected ==
    (ev.decoded /\ ev.ret # 0 /\ InboundListed /\ ~InboundRejected) =>
        \A i \in NofilterCalls : sent[i].data = ev.data

\* C33, amended: with a global or an inbound list configured, the peers
\* without an outbound list are sent what dns_encode_packet wrote for the
\* list NULL, whether or not inbound filtering rejected anything; they are
\* sent the bytes as received when neither list is configured.
C33_ReencodedWhenListed ==
    (ev.decoded /\ ev.ret # 0) =>
        /\ NofilterCalls = { i \in 1..Len(sent) : sent[i].peer \in PeersOf(NULL) }
        /\ IF InboundListed
           THEN \A i \in NofilterCalls :
                    /\ sent[i].enc = 1
                    /\ ev.encs[1].filter = NULL
                    /\ sent[i].data = ev.encs[1].out
           ELSE \A i \in NofilterCalls :
                    /\ sent[i].enc = 0
                    /\ sent[i].data = ev.data

\* every record of a datagram passed the global and the inbound list, and
\* the peers without an outbound list were sent other bytes than received
C33_Witness ==
    /\ ev.decoded
    /\ ev.ret # 0
    /\ InboundListed
    /\ \A k \in 1..Len(ev.g.trace) : ev.g.trace[k].allowed
    /\ NofilterCalls # {}
    /\ \A i \in NofilterCalls : sent[i].data # ev.data /\ sent[i].bytes < Len(ev.data)

----------------------------------------------------------------------------
(* The capacity of the send packet *)

\* C34: for every datagram the decoder accepts and every outbound list,
\* what dns_encode_packet writes lies inside the send packet's buffer of
\* MDNS_MAX_PACKET_SIZE bytes: no byte is written at that offset or behind.
C34_EncodedFitsBuffer ==
    /\ Len(local_storage.send_packet.buffer) <= MDNS_MAX_PACKET_SIZE
    /\ \A i \in 1..Len(sent) : sent[i].bytes <= MDNS_MAX_PACKET_SIZE

----------------------------------------------------------------------------
(* The secondary data of SRV and NSEC records *)

\* the records the decoder kept of the last datagram
KeptRecords ==
    { GetE(local_storage.dns_state.rr_list, index, ZeroRR) :
        index \in 0..(local_storage.dns_state.total_rr_count - 1) }

\* the offset in the receive buffer where the RDATA name of a record starts
RdataNameOffset(rr) ==
    IF rr.type = DNS_TYPE_SRV THEN rr.data + SIZEOF_RR_HEADER + SIZEOF_SRV_DATA
    ELSE rr.data + SIZEOF_RR_HEADER

\* C35: for every SRV and NSEC record the decoder kept, the secondary
\* length is at most the RDATA length the record declares, and the RDATA
\* name stored with the record is the name that stands in the RDATA of this
\* record in this datagram.
C35_SecondaryWithinRdata ==
    (ev.decoded /\ ev.ret # 0) =>
        \A rr \in KeptRecords :
            rr.type \in {DNS_TYPE_SRV, DNS_TYPE_NSEC} =>
                /\ rr.secondary_len <= U16(local_storage.recv_packet.buffer, rr.data + 8)
                /\ dns_decode_name(local_storage.recv_packet, RdataNameOffset(rr),
                                   ZeroName).ret # 0
                /\ NameBytes(rr.rdata_name)
                     = NameBytes(dns_decode_name(local_storage.recv_packet,
                                                 RdataNameOffset(rr), ZeroName).name)
                /\ rr.rdata_name.count
                     = dns_decode_name(local_storage.recv_packet, RdataNameOffset(rr),
                                       ZeroName).name.count

----------------------------------------------------------------------------
(* The sendto calls of a wake-up *)

\* the sockets of the interfaces that are enabled for a family
FamilySockets(ip_type) ==
    { sock(ip_type, FamilyList(scen, ip_type)[k]) :
        k \in 1..Len(FamilyList(scen, ip_type)) }

\* the number of sendto calls of a worker's last wake-up on a socket
CallsOn(ip_type, p) ==
    Cardinality({ i \in 1..Len(threads[ip_type].sent) : threads[ip_type].sent[i].peer = p })

\* dns_encode_packet left a datagram for the outbound list
VariantWritten(ip_type, f) ==
    \E j \in 1..Len(threads[ip_type].encs) :
        threads[ip_type].encs[j].filter = f /\ threads[ip_type].encs[j].ret # 0

\* a datagram is there for the peer on socket p
DatagramFor(ip_type, p) ==
    IF ~filtering_enabled THEN TRUE
    ELSE IF threads[ip_type].ret = 0 THEN FALSE
    ELSE IF interface_list[p].outbound_filter_list = NULL THEN TRUE
    ELSE VariantWritten(ip_type, interface_list[p].outbound_filter_list)

\* C36: for every datagram a worker has received, every peer of the ingress
\* interface gets one sendto call when there is a datagram for its variant
\* and none otherwise; no call is made on the ingress interface, on an
\* interface that is disabled for the worker's family, or on a socket of
\* the other family.
C36_OneDatagramPerPeer ==
    \A ip_type \in DOMAIN threads :
        (threads[ip_type].pc = "wait" /\ threads[ip_type].events > 0) =>
            /\ \A i \in 1..Len(threads[ip_type].sent) :
                  /\ threads[ip_type].sent[i].peer \in FamilySockets(ip_type)
                  /\ threads[ip_type].sent[i].peer # threads[ip_type].interface
            /\ \A p \in FamilySockets(ip_type) \ {threads[ip_type].interface} :
                  CallsOn(ip_type, p) = IF DatagramFor(ip_type, p) THEN 1 ELSE 0

\* both workers have sent a datagram on: the one of the first family to two
\* peers, the one of the second family, for which the second interface is
\* disabled, to the third interface only
C36_Witness ==
    /\ threads # <<>>
    /\ \A ip_type \in IpTypes : threads[ip_type].pc = "wait" /\ threads[ip_type].events > 0
    /\ threads[IPV4].interface = sock(IPV4, 1)
    /\ Len(threads[IPV4].sent) = 2
    /\ threads[IPV6].interface = sock(IPV6, 1)
    /\ Len(threads[IPV6].sent) = 1
    /\ threads[IPV6].sent[1].peer = sock(IPV6, 3)

----------------------------------------------------------------------------
(* What sendto is handed *)

\* what dns_encode_packet writes for the datagram in the receive buffer and
\* one outbound list into a send packet that nothing was written to before
FreshEncoding(f) ==
    dns_encode_packet(local_storage.dns_state, local_storage.recv_packet,
                      [bytes |-> 0, buffer |-> <<>>], f)

FreshOut(f) == Sub(FreshEncoding(f).send.buffer, 0, FreshEncoding(f).ret)

\* the call was handed the receive buffer
SentReceived(call) ==
    /\ call.enc = 0
    /\ call.bytes = Len(ev.data)
    /\ call.data = ev.data

\* the call was handed what a dns_encode_packet call of this wake-up, for
\* the outbound list of the peer, returned non-zero for and wrote
SentEncoded(call) ==
    /\ call.enc \in 1..Len(ev.encs)
    /\ ev.encs[call.enc].filter = interface_list[call.peer].outbound_filter_list
    /\ ev.encs[call.enc].ret # 0
    /\ call.bytes = ev.encs[call.enc].ret
    /\ call.data = FreshOut(interface_list[call.peer].outbound_filter_list)

\* C37: every datagram handed to sendto is the receive buffer, or a send
\* buffer whose bytes and length were written by a dns_encode_packet call
\* that returned non-zero for this datagram and the peer's variant; what a
\* previous datagram or another variant left in the send buffer is not sent.
C37_SentIsOfThisPacket ==
    \A i \in 1..Len(sent) : SentReceived(sent[i]) \/ SentEncoded(sent[i])

----------------------------------------------------------------------------
(* The wait that fails *)

\* C38: when the wait returns a negative count, on a signal or on an error,
\* the worker calls receive zero times and reads no entry of the events
\* array for that wake-up, and waits again.
C38_NoEventsOnNegativeCount ==
    \A t \in DOMAIN threads :
        threads[t].num_events < 0 =>
            /\ threads[t].reads = <<>>
            /\ threads[t].calls = <<>>
            /\ threads[t].pc \in {"loop", "wait"}

----------------------------------------------------------------------------
(* The match names of the filter lists *)

\* the bytes from offset on are labels, each behind its length byte, whose
\* lengths are 1..63 and which end where the bytes end
RECURSIVE LabelSequence(_, _)
LabelSequence(labels, offset) ==
    IF offset >= Len(labels) THEN offset = Len(labels)
    ELSE /\ labels[offset + 1] \in 1..(DNS_MAX_LABEL_LEN - 1)
         /\ LabelSequence(labels, offset + 1 + labels[offset + 1])

\* C39: every match name that dns_save_match_name has stored holds exactly
\* `length` bytes of labels, each behind a length byte of 1..63; a filter
\* string with an empty label, a label of more than 63 bytes or a dot at
\* its end is a fatal error and leaves no match name.
C39_MatchNamesWellFormed ==
    Alive =>
        \A f \in 1..Len(cfg.heap) : \A k \in 1..cfg.heap[f].count :
            /\ Len(cfg.heap[f].names[k].labels) = cfg.heap[f].names[k].length
            /\ LabelSequence(cfg.heap[f].names[k].labels, 0)

====
